---- MODULE Spec2Model ----
(***************************************************************************)
(* Recurring-schedule materialization (schedule_overview) and conflict     *)
(* detection (detect_schedule_conflicts) of the transport planner schema,  *)
(* supabase/migrations/20250711105343_golden_brook.sql.                    *)
(*                                                                         *)
(* Dates are day numbers; day 0 is Sunday 2025-01-05, so that PostgreSQL's *)
(* EXTRACT(DOW FROM d) (0 = Sunday .. 6 = Saturday) is d % 7.  All dates   *)
(* stored by the model lie in January 2025, where date + INTERVAL '1 year' *)
(* is 365 days later.  Times are minutes after midnight.  UUIDs are small  *)
(* positive integers.                                                      *)
(***************************************************************************)
EXTENDS Integers, FiniteSets, Sequences, Bags, TLC

\* SQL NULL of a nullable scalar column
NULL == -1
\* SQL NULL of a TEXT column
NullText == "NULL"
\* SQL NULL of the INTEGER[] column days_of_week (a set no array denotes)
NullArray == {NULL}
\* rs.start_date + INTERVAL '1 year', in days, for the modelled dates
OneYear == 365

\* ---- bounds of the model
\* latest end_date a template is given
MaxDate == 9

TemplateIds == {1, 2, 3}
DriverIds == {1, 2}
VehicleIds == {1, 2}
TemplateStatuses == {"Pending", "Confirmed", "Changed", "Cancelled"}
InstanceStatuses == {"Confirmed", "Cancelled"}
StartDates == {1, 3}
EndDates == {NULL, 2, MaxDate}
DaysOfWeekChoices == {{7}, {1, 2, 3}, {4, 5, 6, 7}, NullArray}
\* the date the detection functions see as CURRENT_DATE (a Monday)
DetectionDate == 8

VARIABLES
  route_schedules,     \* table route_schedules: template id -> row
  schedule_instances,  \* table schedule_instances: set of rows
  conflict_checks,     \* table conflict_checks, committed rows (a bag: the
                       \* uuid of a row only tells equal rows apart)
  today,               \* CURRENT_DATE
  pc,                  \* position of the running detect_schedule_conflicts
  txn_deleted,         \* rows its transaction has deleted, not yet committed
  txn_inserted,        \* rows its transaction has inserted, not yet committed
  reader_view,         \* what a concurrent reader of conflict_checks last saw
  clock,               \* CURRENT_TIME, minutes after midnight
  route_alerts,        \* table route_alerts (a bag, as conflict_checks)
  route_responsibility,\* table route_responsibility: set of rows
  support_offer,       \* table support_offer: set of rows
  vehicle_rows,        \* table vehicles: set of rows
  license_types,       \* table license_types: set of rows
  audit_logs,          \* table audit_logs (a bag)
  query_cache,         \* react-query: the query keys invalidated so far
  form,                \* the VehicleForm component and the toast last raised
  call_result,         \* what the last mutation or rpc returned to its caller
  overview_rows,       \* the stored rows of the materialized view schedule_overview
  txn2,                \* a second, concurrent run of detect_schedule_conflicts
  query,               \* one useSupabaseQuery observer in react-query
  auth,                \* the useAuth hook of one mounted component tree
  suggest              \* suggestion engine: occurrences, distances, config,
                       \* table smart_suggestions

\* the tables of the schedule core
core_vars == <<route_schedules, schedule_instances, conflict_checks, today,
               pc, txn_deleted, txn_inserted, reader_view>>

\* the tables and components around it
ext_vars == <<clock, route_alerts, route_responsibility, support_offer,
              vehicle_rows, license_types, audit_logs, query_cache, form,
              call_result>>

vars == <<route_schedules, schedule_instances, conflict_checks, today,
          pc, txn_deleted, txn_inserted, reader_view,
          clock, route_alerts, route_responsibility, support_offer,
          vehicle_rows, license_types, audit_logs, query_cache, form,
          call_result, overview_rows, txn2, query, auth, suggest>>

\* the materialized view, the second run and the hooks
side_vars == <<overview_rows, txn2, query, auth, suggest>>

\* no call made yet
NoCall == [op |-> "none"]

\* the VehicleForm not mounted, no toast raised
NoForm == [open |-> FALSE, toast |-> NullText]

\* the second run of the detection not started
NoTxn == [pc |-> "idle", deleted |-> EmptyBag, inserted |-> EmptyBag]

\* no query observed
NoQuery == [status |-> "idle"]

\* the component tree of useAuth not mounted
NoAuth == [mounted |-> FALSE]

\* no suggestion scenario: no occurrences, table smart_suggestions empty
NoSuggest == [records |-> {}]

\* the view as CREATE MATERIALIZED VIEW filled it over the empty tables, no
\* second run, no query, nothing mounted
SideInit ==
  /\ overview_rows = {}
  /\ txn2 = NoTxn
  /\ query = NoQuery
  /\ auth = NoAuth
  /\ suggest = NoSuggest

\* the surroundings before any of their operations ran: empty tables, 07:50
ExtInit ==
  /\ clock = 470
  /\ route_alerts = EmptyBag
  /\ route_responsibility = {}
  /\ support_offer = {}
  /\ vehicle_rows = {}
  /\ license_types = {}
  /\ audit_logs = EmptyBag
  /\ query_cache = {}
  /\ form = NoForm
  /\ call_result = NoCall
  /\ SideInit

\* ---- lookup tables drivers / vehicles (id -> unique code)
drivers == [d \in DriverIds |-> [driver_code |-> 100 + d]]
vehicles == [v \in VehicleIds |-> [vehicle_code |-> 200 + v]]

\* LEFT JOIN drivers d ON x = d.id, column driver_code
DriverCode(id) == IF id \in DriverIds THEN drivers[id].driver_code ELSE NULL
\* LEFT JOIN vehicles v ON x = v.id, column vehicle_code
VehicleCode(id) == IF id \in VehicleIds THEN vehicles[id].vehicle_code ELSE NULL

\* uuid of the schedule_instances row of (template, date); the pair is UNIQUE
InstanceId(t, d) == t * 100 + d

\* ---- schedule_overview ---------------------------------------------------

COALESCE_DefaultWins(a, b) == IF b # NULL THEN b ELSE a
COALESCE(a, b) == IF a # NULL THEN a ELSE b

\* COALESCE over a TEXT column
COALESCE_TEXT(a, b) == IF a # NullText THEN a ELSE b

\* EXTRACT(DOW FROM schedule_date): 0 = Sunday .. 6 = Saturday
DOW(d) == d % 7

\* the weekday numbering the column comment documents: 1 = Monday .. 7 = Sunday
DocumentedWeekday(d) == IF d % 7 = 0 THEN 7 ELSE d % 7

\* CASE WHEN rs.days_of_week IS NULL THEN ARRAY[1..7] ELSE rs.days_of_week END
DaysOfWeekOrAll(rs) ==
  IF rs.days_of_week = NullArray THEN {1, 2, 3, 4, 5, 6, 7} ELSE rs.days_of_week

\* COALESCE(rs.end_date, rs.start_date + INTERVAL '1 year')
SeriesEnd(rs) == IF rs.end_date # NULL THEN rs.end_date ELSE rs.start_date + OneYear

generate_series_NoEnd(rs) == rs.start_date .. (rs.start_date + OneYear)
\* generate_series(rs.start_date, <end>, '1 day')
generate_series(rs) == rs.start_date .. SeriesEnd(rs)

StatusIsActive_WithPending(s) == s \in {"Pending", "Confirmed", "Changed"}
\* WHERE rs.status IN ('Confirmed', 'Changed')
StatusIsActive(s) == s \in {"Confirmed", "Changed"}

\* the all-NULL row a LEFT JOIN supplies when no schedule_instances row matches
NullInstance ==
  [id |-> NULL, route_schedule_id |-> NULL, schedule_date |-> NULL,
   driver_id |-> NULL, vehicle_id |-> NULL,
   standby_date |-> NULL, standby_time |-> NULL,
   departure_date |-> NULL, departure_time |-> NULL,
   status |-> NullText, is_deleted |-> FALSE]

\* LEFT JOIN schedule_instances si ON si.route_schedule_id = rs.id
\*   AND si.schedule_date = schedule_date AND si.is_deleted = FALSE
InstanceJoin(t, d) ==
  LET m == {si \in schedule_instances :
              /\ si.route_schedule_id = t
              /\ si.schedule_date = d
              /\ si.is_deleted = FALSE}
  IN  IF m = {} THEN {[matched |-> FALSE, si |-> NullInstance]}
      ELSE {[matched |-> TRUE, si |-> s] : s \in m}

\* the WHERE clause of the view
OverviewWhere(rs, d, j) ==
  /\ StatusIsActive(rs.status)
  /\ (~j.matched \/ j.si.is_deleted = FALSE)
  /\ DOW(d) \in DaysOfWeekOrAll(rs)

\* the SELECT list of the view
OverviewRow(t, rs, d, j) ==
  [schedule_id    |-> t,
   schedule_date  |-> d,
   standby_time   |-> COALESCE(j.si.standby_time, rs.standby_time),
   departure_time |-> COALESCE(j.si.departure_time, rs.departure_time),
   standby_date   |-> COALESCE(j.si.standby_date, d),
   departure_date |-> COALESCE(j.si.departure_date, d),
   driver_code    |-> COALESCE(DriverCode(j.si.driver_id), DriverCode(rs.default_driver_id)),
   vehicle_code   |-> COALESCE(VehicleCode(j.si.vehicle_id), VehicleCode(rs.default_vehicle_id)),
   status         |-> COALESCE_TEXT(j.si.status, rs.status),
   has_override   |-> j.matched]

\* the rows of the view for one template
OverviewOf(t) ==
  LET rs == route_schedules[t]
  IN  UNION { {OverviewRow(t, rs, d, j) : j \in {k \in InstanceJoin(t, d) : OverviewWhere(rs, d, k)}}
              : d \in generate_series(rs) }

\* the query of the materialized view schedule_overview
schedule_overview == UNION {OverviewOf(t) : t \in DOMAIN route_schedules}

\* ---- detect_schedule_conflicts ----------------------------------------------

\* the rows of a conflict_checks bag whose check_date is d
RowsOfDate(checks, d) ==
  [r \in {x \in BagToSet(checks) : x.check_date = d} |-> CopiesIn(r, checks)]

DeleteTargets_OpenOnly(checks, d) ==
  [r \in {x \in BagToSet(checks) : x.check_date = d /\ x.status = "Open"}
     |-> CopiesIn(r, checks)]
DeleteTargets_None(checks, d) == EmptyBag
DeleteTargets_DriverOnly(checks, d) ==
  [r \in {x \in BagToSet(checks) :
            x.check_date = d /\ x.conflict_type = "Driver Overlap"}
     |-> CopiesIn(r, checks)]
\* DELETE FROM conflict_checks WHERE check_date = CURRENT_DATE: the rows it removes
DeleteTargets(checks, d) == RowsOfDate(checks, d)

ConflictSeverity_AlwaysHigh(n) == IF n >= 2 THEN "High" ELSE "Medium"
\* CASE WHEN COUNT(*) > 2 THEN 'High' ELSE 'Medium' END
ConflictSeverity(n) == IF n > 2 THEN "High" ELSE "Medium"

\* HAVING COUNT(*) > 1
HavingCount(n) == n > 1

DriverCandidates_WithDeleted ==
  {si \in schedule_instances :
     /\ si.schedule_date = today
     /\ si.driver_id # NULL
     /\ si.status \in {"Scheduled", "Confirmed"}}
\* FROM schedule_instances WHERE schedule_date = CURRENT_DATE
\*   AND driver_id IS NOT NULL AND status IN (...) AND is_deleted = FALSE
DriverCandidates ==
  {si \in schedule_instances :
     /\ si.schedule_date = today
     /\ si.driver_id # NULL
     /\ si.status \in {"Scheduled", "Confirmed"}
     /\ si.is_deleted = FALSE}

\* the same for vehicle_id
VehicleCandidates ==
  {si \in schedule_instances :
     /\ si.schedule_date = today
     /\ si.vehicle_id # NULL
     /\ si.status \in {"Scheduled", "Confirmed"}
     /\ si.is_deleted = FALSE}

\* the rows the driver INSERT ... SELECT ... GROUP BY driver_id writes
DriverConflictRows ==
  LET group(g) == {si \in DriverCandidates : si.driver_id = g}
  IN  {[check_date            |-> today,
        driver_id             |-> g,
        vehicle_id            |-> NULL,
        conflicting_schedules |-> {si.id : si \in group(g)},
        conflict_type         |-> "Driver Overlap",
        severity              |-> ConflictSeverity(Cardinality(group(g))),
        status                |-> "Open",
        resolution_notes      |-> NullText,
        resolved_at           |-> NULL]
       : g \in {h \in {si.driver_id : si \in DriverCandidates} :
                  HavingCount(Cardinality(group(h)))}}

\* the rows the vehicle INSERT ... SELECT ... GROUP BY vehicle_id writes
VehicleConflictRows ==
  LET group(g) == {si \in VehicleCandidates : si.vehicle_id = g}
  IN  {[check_date            |-> today,
        driver_id             |-> NULL,
        vehicle_id            |-> g,
        conflicting_schedules |-> {si.id : si \in group(g)},
        conflict_type         |-> "Vehicle Overlap",
        severity              |-> ConflictSeverity(Cardinality(group(g))),
        status                |-> "Open",
        resolution_notes      |-> NullText,
        resolved_at           |-> NULL]
       : g \in {h \in {si.vehicle_id : si \in VehicleCandidates} :
                  HavingCount(Cardinality(group(h)))}}

\* conflict_checks after one run of the function on the table `checks`
DetectOn(checks) ==
  ((checks (-) DeleteTargets(checks, today))
     (+) SetToBag(DriverConflictRows)) (+) SetToBag(VehicleConflictRows)

\* detect_schedule_conflicts(), run on its own: one transaction
DetectScheduleConflicts ==
  /\ pc = "idle"
  /\ conflict_checks' = DetectOn(conflict_checks)
  /\ UNCHANGED <<route_schedules, schedule_instances, today, pc,
                 txn_deleted, txn_inserted, reader_view>>
  /\ UNCHANGED ext_vars
  /\ UNCHANGED side_vars

\* ---- the tables' rows ------------------------------------------------------

\* route_schedules rows the planner forms can store
TemplateRows ==
  [status            : TemplateStatuses,
   days_of_week      : DaysOfWeekChoices,
   start_date        : StartDates,
   end_date          : EndDates,
   default_driver_id : {NULL, 1},
   default_vehicle_id: {NULL, 1},
   standby_time      : {NULL, 480},
   departure_time    : {540}]

\* schedule_instances rows of template t on date d
InstanceRows(t, d) ==
  [id               : {InstanceId(t, d)},
   route_schedule_id: {t},
   schedule_date    : {d},
   driver_id        : {NULL} \cup DriverIds,
   vehicle_id       : {NULL, 2},
   standby_date     : {NULL},
   standby_time     : {NULL, 500},
   departure_date   : {NULL},
   departure_time   : {NULL},
   status           : InstanceStatuses,
   is_deleted       : BOOLEAN]

\* ---- mutations through the generic table hooks -----------------------------

\* update of route_schedules.status (Pending / Confirmed / Changed / Cancelled)
UpdateScheduleStatus(t, s) ==
  /\ t \in DOMAIN route_schedules
  /\ s \in TemplateStatuses
  /\ route_schedules[t].status # s
  /\ route_schedules' = [route_schedules EXCEPT ![t].status = s]
  /\ UNCHANGED <<schedule_instances, conflict_checks, today, pc,
                 txn_deleted, txn_inserted, reader_view>>
  /\ UNCHANGED ext_vars
  /\ UNCHANGED side_vars

\* insert into schedule_instances; UNIQUE(route_schedule_id, schedule_date)
InsertInstance(row) ==
  /\ row.route_schedule_id \in DOMAIN route_schedules
  /\ ~\E si \in schedule_instances :
        /\ si.route_schedule_id = row.route_schedule_id
        /\ si.schedule_date = row.schedule_date
  /\ schedule_instances' = schedule_instances \cup {row}
  /\ UNCHANGED <<route_schedules, conflict_checks, today, pc,
                 txn_deleted, txn_inserted, reader_view>>
  /\ UNCHANGED ext_vars
  /\ UNCHANGED side_vars

\* update of one schedule_instances row by id (reassign, cancel, mark deleted)
UpdateInstance(si, row) ==
  /\ si \in schedule_instances
  /\ row.id = si.id
  /\ row # si
  /\ schedule_instances' = (schedule_instances \ {si}) \cup {row}
  /\ UNCHANGED <<route_schedules, conflict_checks, today, pc,
                 txn_deleted, txn_inserted, reader_view>>
  /\ UNCHANGED ext_vars
  /\ UNCHANGED side_vars

\* ---- the materializer's specification --------------------------------------

\* a template as it is created: Pending (the column default) or Confirmed
NewTemplateRows == {r \in TemplateRows : r.status \in {"Pending", "Confirmed"}}

\* one new template and no override yet
Init ==
  /\ route_schedules \in [{1} -> NewTemplateRows]
  /\ schedule_instances = {}
  /\ conflict_checks = EmptyBag
  /\ today = DetectionDate
  /\ pc = "idle"
  /\ txn_deleted = EmptyBag
  /\ txn_inserted = EmptyBag
  /\ reader_view = [rows |-> EmptyBag, at |-> "idle"]
  /\ ExtInit

Next ==
  \/ \E t \in TemplateIds, s \in TemplateStatuses : UpdateScheduleStatus(t, s)
  \/ \E t \in TemplateIds : \E row \in InstanceRows(t, DetectionDate) : InsertInstance(row)
  \/ \E si \in schedule_instances :
       \E row \in InstanceRows(si.route_schedule_id, si.schedule_date) : UpdateInstance(si, row)

Spec == Init /\ [][Next]_vars

\* ---- the detection's specification ------------------------------------------

\* the template every route of the detection scenario runs on
DetectionTemplate ==
  [status |-> "Confirmed", days_of_week |-> NullArray, start_date |-> 1,
   end_date |-> MaxDate, default_driver_id |-> 1, default_vehicle_id |-> 1,
   standby_time |-> 480, departure_time |-> 540]

\* yesterday's override of template t: driver 1, Confirmed
YesterdayInstance(t) ==
  [id |-> InstanceId(t, DetectionDate - 1), route_schedule_id |-> t,
   schedule_date |-> DetectionDate - 1, driver_id |-> 1, vehicle_id |-> NULL,
   standby_date |-> NULL, standby_time |-> NULL, departure_date |-> NULL,
   departure_time |-> NULL, status |-> "Confirmed", is_deleted |-> FALSE]

\* the record yesterday's run left for them
YesterdayConflict ==
  [check_date |-> DetectionDate - 1, driver_id |-> 1, vehicle_id |-> NULL,
   conflicting_schedules |-> {InstanceId(1, DetectionDate - 1),
                              InstanceId(2, DetectionDate - 1)},
   conflict_type |-> "Driver Overlap", severity |-> "Medium", status |-> "Open",
   resolution_notes |-> NullText, resolved_at |-> NULL]

\* the overrides the detection scenario stores: a driver is assigned, no own
\* standby time, and a cancelled row is not also marked deleted
DetectionRows(t) ==
  {r \in InstanceRows(t, DetectionDate) :
     /\ r.standby_time = NULL
     /\ r.driver_id # NULL
     /\ ~(r.status = "Cancelled" /\ r.is_deleted)}

\* three confirmed templates, yesterday's two overrides and their record
InitDetect ==
  /\ route_schedules = [t \in TemplateIds |-> DetectionTemplate]
  /\ schedule_instances = {YesterdayInstance(1), YesterdayInstance(2)}
  /\ conflict_checks = SetToBag({YesterdayConflict})
  /\ today = DetectionDate
  /\ pc = "idle"
  /\ txn_deleted = EmptyBag
  /\ txn_inserted = EmptyBag
  /\ reader_view = [rows |-> EmptyBag, at |-> "idle"]
  /\ ExtInit

NextDetect ==
  \/ \E t \in TemplateIds : \E row \in DetectionRows(t) : InsertInstance(row)
  \/ \E si \in {x \in schedule_instances : x.schedule_date = today} :
       \E row \in DetectionRows(si.route_schedule_id) : UpdateInstance(si, row)
  \/ DetectScheduleConflicts

SpecDetect == InitDetect /\ [][NextDetect]_vars

\* ---- detect_schedule_conflicts beside a concurrent reader -------------------

\* the table as the function's own transaction sees it
TxnVisible == (conflict_checks (-) txn_deleted) (+) txn_inserted

ReaderVisible_Uncommitted == (conflict_checks (-) txn_deleted) (+) txn_inserted
\* the table as another session sees it: committed rows only
ReaderVisible == conflict_checks

\* DELETE FROM conflict_checks WHERE check_date = CURRENT_DATE
TxnDelete ==
  /\ pc = "idle"
  /\ txn_deleted' = DeleteTargets(TxnVisible, today)
  /\ pc' = "deleted"
  /\ UNCHANGED <<route_schedules, schedule_instances, conflict_checks, today,
                 txn_inserted, reader_view>>
  /\ UNCHANGED ext_vars
  /\ UNCHANGED side_vars

\* INSERT INTO conflict_checks ... 'Driver Overlap'
TxnInsertDrivers ==
  /\ pc = "deleted"
  /\ txn_inserted' = txn_inserted (+) SetToBag(DriverConflictRows)
  /\ pc' = "drivers"
  /\ UNCHANGED <<route_schedules, schedule_instances, conflict_checks, today,
                 txn_deleted, reader_view>>
  /\ UNCHANGED ext_vars
  /\ UNCHANGED side_vars

\* INSERT INTO conflict_checks ... 'Vehicle Overlap'
TxnInsertVehicles ==
  /\ pc = "drivers"
  /\ txn_inserted' = txn_inserted (+) SetToBag(VehicleConflictRows)
  /\ pc' = "vehicles"
  /\ UNCHANGED <<route_schedules, schedule_instances, conflict_checks, today,
                 txn_deleted, reader_view>>
  /\ UNCHANGED ext_vars
  /\ UNCHANGED side_vars

\* END of the function: its statement's transaction commits
TxnCommit ==
  /\ pc = "vehicles"
  /\ conflict_checks' = TxnVisible
  /\ txn_deleted' = EmptyBag
  /\ txn_inserted' = EmptyBag
  /\ pc' = "idle"
  /\ UNCHANGED <<route_schedules, schedule_instances, today, reader_view>>
  /\ UNCHANGED ext_vars
  /\ UNCHANGED side_vars

\* another session selects today's conflict_checks rows
ReadConflicts ==
  /\ reader_view' = [rows |-> RowsOfDate(ReaderVisible, today), at |-> pc]
  /\ UNCHANGED <<route_schedules, schedule_instances, conflict_checks, today,
                 pc, txn_deleted, txn_inserted>>
  /\ UNCHANGED ext_vars
  /\ UNCHANGED side_vars

\* the overrides of the concurrent scenario: templates 1 and 2, vehicle 2,
\* Confirmed, reassigned between the drivers or marked deleted
TxnRows(t) ==
  {r \in DetectionRows(t) :
     t \in {1, 2} /\ r.vehicle_id = 2 /\ r.status = "Confirmed"}

NextTxn ==
  \/ \E t \in TemplateIds : \E row \in TxnRows(t) : InsertInstance(row)
  \/ \E si \in {x \in schedule_instances : x.schedule_date = today} :
       \E row \in TxnRows(si.route_schedule_id) : UpdateInstance(si, row)
  \/ TxnDelete
  \/ TxnInsertDrivers
  \/ TxnInsertVehicles
  \/ TxnCommit
  \/ ReadConflicts

SpecTxn == InitDetect /\ [][NextTxn]_vars

\* ---- claims about the materializer ------------------------------------------

\* template t has a row in the view on date d
Occurs(t, d) == \E r \in OverviewOf(t) : r.schedule_date = d

\* template t has a schedule_instances row (deleted or not) on date d
HasInstanceRow(t, d) ==
  \E si \in schedule_instances : si.route_schedule_id = t /\ si.schedule_date = d

\* C1: an active template yields an occurrence on every date of its range whose
\* weekday, numbered 1 = Monday .. 7 = Sunday, is in days_of_week, and yields
\* none on a date whose weekday is not in it, Sunday included.
C1_WeekdayRuleAsDocumented ==
  \A t \in DOMAIN route_schedules :
    LET rs == route_schedules[t]
        ov == {r.schedule_date : r \in OverviewOf(t)}
    IN  \A d \in generate_series(rs) :
          /\ (/\ DocumentedWeekday(d) \in DaysOfWeekOrAll(rs)
              /\ StatusIsActive(rs.status)
              /\ ~HasInstanceRow(t, d)) => d \in ov
          /\ DocumentedWeekday(d) \notin DaysOfWeekOrAll(rs) => d \notin ov

\* C2: a schedule_instances row with is_deleted = TRUE leaves no occurrence of
\* its template on its date in the view.
C2_DeletedOverrideExcludesDate ==
  \A si \in schedule_instances :
    si.is_deleted => ~Occurs(si.route_schedule_id, si.schedule_date)

\* the value the claim expects of a merged field: the override's when set
MergedField(override, default) == IF override = NULL THEN default ELSE override

\* C8: every view row built from a non-deleted override row takes each of
\* driver, vehicle, standby time and departure time from the override when the
\* override sets it and from the template default otherwise, field by field.
C8_OverrideWinsFieldByField ==
  \A si \in schedule_instances :
    LET rs == route_schedules[si.route_schedule_id]
    IN  ~si.is_deleted =>
          \A r \in OverviewOf(si.route_schedule_id) :
            r.schedule_date = si.schedule_date =>
              /\ r.has_override
              /\ r.driver_code =
                   DriverCode(MergedField(si.driver_id, rs.default_driver_id))
              /\ r.vehicle_code =
                   VehicleCode(MergedField(si.vehicle_id, rs.default_vehicle_id))
              /\ r.standby_time = MergedField(si.standby_time, rs.standby_time)
              /\ r.departure_time = MergedField(si.departure_time, rs.departure_time)

\* an occurrence whose driver comes from the override (differing from the
\* default) while its standby time falls back to the template's
C8_Witness ==
  \E si \in schedule_instances :
    LET rs == route_schedules[si.route_schedule_id]
    IN  /\ ~si.is_deleted
        /\ Occurs(si.route_schedule_id, si.schedule_date)
        /\ si.driver_id # NULL /\ rs.default_driver_id # NULL
        /\ si.driver_id # rs.default_driver_id
        /\ si.standby_time = NULL /\ rs.standby_time # NULL
        /\ si.vehicle_id = NULL /\ rs.default_vehicle_id # NULL

\* C9: the view has no row of template T on a date before T.start_date or
\* after T.end_date (after start_date + 1 year when end_date is NULL).
C9_NoOccurrenceOutsideRange ==
  \A r \in schedule_overview :
    LET rs == route_schedules[r.schedule_id]
    IN  /\ r.schedule_date >= rs.start_date
        /\ rs.end_date # NULL => r.schedule_date <= rs.end_date
        /\ rs.end_date = NULL => r.schedule_date <= rs.start_date + OneYear

\* a template that yields occurrences inside its range and has, right after
\* its end_date, a date whose weekday its rule selects
C9_Witness ==
  \E t \in DOMAIN route_schedules :
    LET rs == route_schedules[t]
    IN  /\ rs.end_date # NULL
        /\ Occurs(t, rs.end_date)
        /\ DOW(rs.end_date + 1) \in DaysOfWeekOrAll(rs)
        /\ ~Occurs(t, rs.end_date + 1)

\* C10: only templates in status Confirmed or Changed have rows in the view;
\* a Pending or Cancelled template has none on any date.
C10_OnlyConfirmedOrChanged ==
  \A t \in DOMAIN route_schedules :
    route_schedules[t].status \in {"Pending", "Cancelled"} => OverviewOf(t) = {}

\* a Cancelled template whose range holds a date its rule selects
C10_Witness ==
  \E t \in DOMAIN route_schedules :
    LET rs == route_schedules[t]
    IN  /\ rs.status = "Cancelled"
        /\ \E d \in generate_series(rs) : DOW(d) \in DaysOfWeekOrAll(rs)
        /\ OverviewOf(t) = {}

\* ---- claims about the detection ---------------------------------------------

\* a row the claims count as an occurrence of the detection date: not deleted,
\* status Scheduled or Confirmed
Qualifies(si) ==
  /\ si.schedule_date = today
  /\ si.status \in {"Scheduled", "Confirmed"}
  /\ ~si.is_deleted

QualifyingOfDriver(g) ==
  {si.id : si \in {x \in schedule_instances : Qualifies(x) /\ x.driver_id = g}}

QualifyingOfVehicle(g) ==
  {si.id : si \in {x \in schedule_instances : Qualifies(x) /\ x.vehicle_id = g}}

\* today's records of one driver in a conflict_checks bag
DriverRecords(checks, g) ==
  [r \in {x \in BagToSet(checks) :
            /\ x.check_date = today
            /\ x.conflict_type = "Driver Overlap"
            /\ x.driver_id = g} |-> CopiesIn(r, checks)]

\* today's records of one vehicle in a conflict_checks bag
VehicleRecords(checks, g) ==
  [r \in {x \in BagToSet(checks) :
            /\ x.check_date = today
            /\ x.conflict_type = "Vehicle Overlap"
            /\ x.vehicle_id = g} |-> CopiesIn(r, checks)]

\* the records are the single record the claims expect for the occurrences ids
ExactlyTheRecordFor(records, ids) ==
  IF Cardinality(ids) > 1
  THEN /\ BagCardinality(records) = 1
       /\ \A r \in BagToSet(records) :
            /\ r.conflicting_schedules = ids
            /\ r.severity = (IF Cardinality(ids) > 2 THEN "High" ELSE "Medium")
  ELSE records = EmptyBag

\* C3: two active templates that both have an occurrence on the detection
\* date and share their default driver, neither with an override row, get a
\* Driver Overlap record from a detection run.
C3_DefaultDriverOverlapFlagged ==
  \A t1, t2 \in DOMAIN route_schedules :
    (/\ t1 # t2
     /\ ~HasInstanceRow(t1, today) /\ ~HasInstanceRow(t2, today)
     /\ Occurs(t1, today) /\ Occurs(t2, today)
     /\ route_schedules[t1].default_driver_id # NULL
     /\ route_schedules[t1].default_driver_id = route_schedules[t2].default_driver_id)
    => DriverRecords(DetectOn(conflict_checks),
                     route_schedules[t1].default_driver_id) # EmptyBag

\* C4: after a run, every driver and every vehicle with n > 1 qualifying
\* occurrences today has exactly one record, listing exactly those n ids, High
\* when n > 2 and Medium when n = 2; with n <= 1 it has none.
C4_OneRecordPerResource ==
  LET after == DetectOn(conflict_checks)
  IN  /\ \A g \in DriverIds :
           ExactlyTheRecordFor(DriverRecords(after, g), QualifyingOfDriver(g))
      /\ \A g \in VehicleIds :
           ExactlyTheRecordFor(VehicleRecords(after, g), QualifyingOfVehicle(g))

\* a run has left a High record of three occurrences for a driver and a
\* Medium record of two for a vehicle
C4_Witness ==
  /\ \E g \in DriverIds :
       /\ Cardinality(QualifyingOfDriver(g)) = 3
       /\ \E r \in BagToSet(DriverRecords(conflict_checks, g)) :
            r.severity = "High" /\ r.conflicting_schedules = QualifyingOfDriver(g)
  /\ \E g \in VehicleIds :
       /\ Cardinality(QualifyingOfVehicle(g)) = 2
       /\ \E r \in BagToSet(VehicleRecords(conflict_checks, g)) :
            r.severity = "Medium" /\ r.conflicting_schedules = QualifyingOfVehicle(g)

\* C5: a second run on unchanged data leaves the table the first run left:
\* the same records, each as often.
C5_DetectionIdempotent ==
  DetectOn(DetectOn(conflict_checks)) = DetectOn(conflict_checks)

\* a run has written records for today and a further run changes nothing
C5_Witness ==
  /\ RowsOfDate(conflict_checks, today) # EmptyBag
  /\ DetectOn(conflict_checks) = conflict_checks

\* C6: after a run, every record of today is the one derived from the current
\* data: its resource still has more than one qualifying occurrence and it
\* lists exactly them, once; no record of a fixed double-booking remains.
C6_StaleRecordsReplaced ==
  LET after == DetectOn(conflict_checks)
  IN  \A r \in BagToSet(RowsOfDate(after, today)) :
        /\ CopiesIn(r, after) = 1
        /\ r.conflict_type = "Driver Overlap" =>
             /\ Cardinality(QualifyingOfDriver(r.driver_id)) > 1
             /\ r.conflicting_schedules = QualifyingOfDriver(r.driver_id)
        /\ r.conflict_type = "Vehicle Overlap" =>
             /\ Cardinality(QualifyingOfVehicle(r.vehicle_id)) > 1
             /\ r.conflicting_schedules = QualifyingOfVehicle(r.vehicle_id)

\* a record of today whose double-booking has been fixed since, which the
\* next run removes
C6_Witness ==
  \E r \in BagToSet(RowsOfDate(conflict_checks, today)) :
    /\ r.conflict_type = "Driver Overlap"
    /\ Cardinality(QualifyingOfDriver(r.driver_id)) <= 1
    /\ DriverRecords(DetectOn(conflict_checks), r.driver_id) = EmptyBag

\* C7: a reader of conflict_checks sees committed rows only, and the committed
\* rows of today change only when a run commits, from the complete old set to
\* the complete set the run wrote.
C7_ReplacementAtomicForReaders ==
  [][/\ reader_view' # reader_view =>
          reader_view'.rows = RowsOfDate(conflict_checks, today)
     /\ conflict_checks' # conflict_checks =>
          /\ pc = "vehicles" /\ pc' = "idle"
          /\ RowsOfDate(conflict_checks', today) = txn_inserted]_vars

\* a reader has read during a run, after the run's DELETE and before its
\* commit, and holds the complete old set, which the run no longer sees
C7_Witness ==
  /\ pc \in {"deleted", "drivers"}
  /\ reader_view.at = pc
  /\ txn_deleted # EmptyBag
  /\ reader_view.rows = RowsOfDate(conflict_checks, today)
  /\ reader_view.rows # RowsOfDate(TxnVisible, today)

\* ---- the detection's filters ------------------------------------------------

\* the overrides of the filter scenario: with or without a driver and a
\* vehicle, Confirmed or Cancelled, live or marked deleted
FilterRows(t) ==
  {r \in InstanceRows(t, DetectionDate) :
     /\ r.standby_time = NULL
     /\ r.driver_id \in {NULL, 1}
     /\ ~(r.status = "Cancelled" /\ r.is_deleted)}

NextFilter ==
  \/ \E t \in TemplateIds : \E row \in FilterRows(t) : InsertInstance(row)
  \/ \E si \in {x \in schedule_instances : x.schedule_date = today} :
       \E row \in FilterRows(si.route_schedule_id) : UpdateInstance(si, row)
  \/ DetectScheduleConflicts

SpecFilter == InitDetect /\ [][NextFilter]_vars

\* the stored row with id i
InstanceOfId(i) == CHOOSE si \in schedule_instances : si.id = i

\* today's records of a conflict_checks bag
TodaysRecords(checks) == {r \in BagToSet(checks) : r.check_date = today}

\* C11: no record a detection run produces lists an occurrence that is marked
\* deleted, has a status outside Scheduled / Confirmed, or has no value in the
\* grouped resource; the record lists exactly the qualifying occurrences of
\* its resource and takes its severity from their number alone.
C11_FilteredRowsNeitherListedNorCounted ==
  \A r \in TodaysRecords(DetectOn(conflict_checks)) :
    LET g   == IF r.conflict_type = "Driver Overlap"
               THEN r.driver_id ELSE r.vehicle_id
        ids == IF r.conflict_type = "Driver Overlap"
               THEN QualifyingOfDriver(g) ELSE QualifyingOfVehicle(g)
    IN  /\ g # NULL
        /\ \A i \in r.conflicting_schedules :
             /\ \E si \in schedule_instances : si.id = i
             /\ ~InstanceOfId(i).is_deleted
             /\ InstanceOfId(i).status \in {"Scheduled", "Confirmed"}
             /\ (r.conflict_type = "Driver Overlap"
                   => InstanceOfId(i).driver_id = g)
             /\ (r.conflict_type = "Vehicle Overlap"
                   => InstanceOfId(i).vehicle_id = g)
        /\ r.conflicting_schedules = ids
        /\ r.severity = (IF Cardinality(ids) > 2 THEN "High" ELSE "Medium")

\* vehicle 2 has two qualifying rows today, one of them without a driver, and
\* a third row marked deleted; the run writes the vehicle record of the two and
\* no driver record
C11_Witness ==
  /\ Cardinality(QualifyingOfVehicle(2)) = 2
  /\ \E si \in schedule_instances :
       Qualifies(si) /\ si.driver_id = NULL /\ si.vehicle_id = 2
  /\ \E si \in schedule_instances :
       /\ si.schedule_date = today /\ si.is_deleted
       /\ si.driver_id = 1 /\ si.vehicle_id = 2
  /\ \E r \in TodaysRecords(DetectOn(conflict_checks)) :
       /\ r.conflict_type = "Vehicle Overlap"
       /\ r.conflicting_schedules = QualifyingOfVehicle(2)
       /\ r.severity = "Medium"
  /\ ~\E r \in TodaysRecords(DetectOn(conflict_checks)) :
       r.conflict_type = "Driver Overlap"

\* ---- the synthetic alerts: detect_cross_day_conflict, check_near_deadline ----

\* minutes in a day: a TIMESTAMPTZ is date * MinutesPerDay + minutes
MinutesPerDay == 1440

\* now()
Now == today * MinutesPerDay + clock

\* DATE(created_at)
DATE(ts) == ts \div MinutesPerDay

\* a != b as a WHERE condition: not true when either side is NULL
SqlNotEqual(a, b) == a # NULL /\ b # NULL /\ a # b

\* route_schedules.owner_user_id of the templates
owner_user_id == (1 :> 1) @@ (2 :> 2) @@ (3 :> 1)

\* INTERVAL '60 minutes'
ReminderWindow == 60

\* t BETWEEN CURRENT_TIME AND CURRENT_TIME + INTERVAL '60 minutes'; the sum
\* of a time of day and an interval wraps at midnight
DepartsWithinWindow(t) ==
  /\ t # NULL
  /\ clock <= t
  /\ t <= (clock + ReminderWindow) % MinutesPerDay

\* today's rows of one alert type in a route_alerts bag
AlertsOfToday(alerts, type) ==
  [r \in {x \in BagToSet(alerts) :
            x.alert_type = type /\ DATE(x.created_at) = today}
     |-> CopiesIn(r, alerts)]

AlertDeleteTargets_None(alerts, type) == EmptyBag
\* DELETE FROM route_alerts WHERE alert_type = ... AND DATE(created_at) = CURRENT_DATE
AlertDeleteTargets(alerts, type) == AlertsOfToday(alerts, type)

\* the rows detect_cross_day_conflict's INSERT ... SELECT writes
CrossDayAlertRows ==
  {[route_schedule_id    |-> NULL,
    schedule_instance_id |-> si.id,
    alert_type           |-> "TimeCrossDay",
    title                |-> "Cross-Day Schedule Detected",
    severity             |-> "Medium",
    is_read              |-> FALSE,
    created_for_user     |-> owner_user_id[si.route_schedule_id],
    created_at           |-> Now]
   : si \in {x \in schedule_instances :
               /\ x.route_schedule_id \in DOMAIN route_schedules
               /\ x.schedule_date = today
               /\ SqlNotEqual(x.standby_date, x.departure_date)
               /\ x.is_deleted = FALSE}}

\* the rows check_near_deadline's INSERT ... SELECT writes
ReminderAlertRows ==
  {[route_schedule_id    |-> NULL,
    schedule_instance_id |-> si.id,
    alert_type           |-> "Reminder",
    title                |-> "Departure Reminder",
    severity             |-> "High",
    is_read              |-> FALSE,
    created_for_user     |-> owner_user_id[si.route_schedule_id],
    created_at           |-> Now]
   : si \in {x \in schedule_instances :
               /\ x.route_schedule_id \in DOMAIN route_schedules
               /\ x.schedule_date = today
               /\ DepartsWithinWindow(x.departure_time)
               /\ x.status \in {"Scheduled", "Confirmed"}
               /\ x.is_deleted = FALSE}}

\* route_alerts after one run of detect_cross_day_conflict on `alerts`
CrossDayOn(alerts) ==
  (alerts (-) AlertDeleteTargets(alerts, "TimeCrossDay"))
    (+) SetToBag(CrossDayAlertRows)

\* route_alerts after one run of check_near_deadline on `alerts`
NearDeadlineOn(alerts) ==
  (alerts (-) AlertDeleteTargets(alerts, "Reminder"))
    (+) SetToBag(ReminderAlertRows)

\* detect_cross_day_conflict(): one transaction
DetectCrossDayConflict ==
  /\ route_alerts' = CrossDayOn(route_alerts)
  /\ UNCHANGED core_vars
  /\ UNCHANGED <<clock, route_responsibility, support_offer, vehicle_rows,
                 license_types, audit_logs, query_cache, form, call_result>>
  /\ UNCHANGED side_vars

\* check_near_deadline(): one transaction
CheckNearDeadline ==
  /\ route_alerts' = NearDeadlineOn(route_alerts)
  /\ UNCHANGED core_vars
  /\ UNCHANGED <<clock, route_responsibility, support_offer, vehicle_rows,
                 license_types, audit_logs, query_cache, form, call_result>>
  /\ UNCHANGED side_vars

\* the times of day the alert scenario observes: 07:50 and 23:30
ClockTimes == {470, 1410}

\* time passes within the day
Tick(c) ==
  /\ c \in ClockTimes
  /\ c > clock
  /\ clock' = c
  /\ UNCHANGED core_vars
  /\ UNCHANGED <<route_alerts, route_responsibility, support_offer,
                 vehicle_rows, license_types, audit_logs, query_cache, form,
                 call_result>>
  /\ UNCHANGED side_vars

\* the overrides of the alert scenario: own standby and departure dates or
\* none, departure at 08:20 or none
AlertRows(t) ==
  {r \in [id               : {InstanceId(t, DetectionDate)},
          route_schedule_id: {t},
          schedule_date    : {DetectionDate},
          driver_id        : {NULL},
          vehicle_id       : {NULL},
          standby_date     : {NULL, DetectionDate - 1, DetectionDate},
          standby_time     : {NULL},
          departure_date   : {NULL, DetectionDate},
          departure_time   : {NULL, 500},
          status           : InstanceStatuses,
          is_deleted       : BOOLEAN] :
     /\ ~(r.status = "Cancelled" /\ r.is_deleted)
     /\ (r.standby_date = NULL => r.departure_date = NULL)}

\* alerts that were there before today's runs: yesterday's of both synthetic
\* types and a notification of today
EarlierAlerts ==
  {[route_schedule_id |-> NULL, schedule_instance_id |-> InstanceId(1, DetectionDate - 1),
    alert_type |-> "TimeCrossDay", title |-> "Cross-Day Schedule Detected",
    severity |-> "Medium", is_read |-> FALSE, created_for_user |-> 1,
    created_at |-> (DetectionDate - 1) * MinutesPerDay + 470],
   [route_schedule_id |-> NULL, schedule_instance_id |-> InstanceId(1, DetectionDate - 1),
    alert_type |-> "Reminder", title |-> "Departure Reminder",
    severity |-> "High", is_read |-> FALSE, created_for_user |-> 1,
    created_at |-> (DetectionDate - 1) * MinutesPerDay + 470],
   [route_schedule_id |-> 1, schedule_instance_id |-> NULL,
    alert_type |-> "Notification", title |-> "Route Notification",
    severity |-> "Medium", is_read |-> FALSE, created_for_user |-> 2,
    created_at |-> DetectionDate * MinutesPerDay + 470]}

InitAlerts ==
  /\ route_schedules = [t \in {1, 2} |-> DetectionTemplate]
  /\ schedule_instances = {}
  /\ conflict_checks = EmptyBag
  /\ today = DetectionDate
  /\ pc = "idle"
  /\ txn_deleted = EmptyBag
  /\ txn_inserted = EmptyBag
  /\ reader_view = [rows |-> EmptyBag, at |-> "idle"]
  /\ clock = 470
  /\ route_alerts = SetToBag(EarlierAlerts)
  /\ route_responsibility = {}
  /\ support_offer = {}
  /\ vehicle_rows = {}
  /\ license_types = {}
  /\ audit_logs = EmptyBag
  /\ query_cache = {}
  /\ form = NoForm
  /\ call_result = NoCall
  /\ SideInit

NextAlerts ==
  \/ \E t \in TemplateIds : \E row \in AlertRows(t) : InsertInstance(row)
  \/ \E si \in {x \in schedule_instances : x.schedule_date = today} :
       \E row \in AlertRows(si.route_schedule_id) : UpdateInstance(si, row)
  \/ DetectCrossDayConflict
  \/ CheckNearDeadline
  \/ \E c \in ClockTimes : Tick(c)

SpecAlerts == InitAlerts /\ [][NextAlerts]_vars

\* ---- claims about the synthetic alerts --------------------------------------

\* the standby and departure dates an occurrence has in schedule_overview
EffectiveStandbyDate(si) == COALESCE(si.standby_date, si.schedule_date)
EffectiveDepartureDate(si) == COALESCE(si.departure_date, si.schedule_date)

\* today's alerts of one type for the row si in a route_alerts bag
AlertsFor(alerts, type, si) ==
  [r \in {x \in DOMAIN AlertsOfToday(alerts, type) :
            x.schedule_instance_id = si.id}
     |-> CopiesIn(r, alerts)]

\* C12: an occurrence of today that is not deleted and whose standby date
\* differs from its departure date gets exactly one TimeCrossDay alert from
\* the cross-day check, addressed to its template's owner, and one whose
\* dates are equal gets none (the check leaves conflict_checks as it is).
C12_CrossDayAlertForDifferingDates ==
  \A si \in schedule_instances :
    (si.schedule_date = today /\ ~si.is_deleted) =>
      LET alerts == AlertsFor(CrossDayOn(route_alerts), "TimeCrossDay", si)
      IN  IF EffectiveStandbyDate(si) # EffectiveDepartureDate(si)
          THEN /\ BagCardinality(alerts) = 1
               /\ \A r \in DOMAIN alerts :
                    r.created_for_user = owner_user_id[si.route_schedule_id]
          ELSE alerts = EmptyBag

\* the rows a run of each function raises an alert for
CrossDayTriggering == {r.schedule_instance_id : r \in CrossDayAlertRows}
ReminderTriggering == {r.schedule_instance_id : r \in ReminderAlertRows}

\* the alerts of a bag that are of another type or of an earlier day
OtherAlerts(alerts, type) == alerts (-) AlertsOfToday(alerts, type)

\* after a run on `before`, `after` holds one alert of the type per
\* triggering row and none else of today, and the other alerts as they were
OneAlertPerTrigger(before, after, type, triggering) ==
  /\ \A r \in DOMAIN AlertsOfToday(after, type) :
       /\ r.schedule_instance_id \in triggering
       /\ CopiesIn(r, after) = 1
  /\ \A i \in triggering :
       Cardinality({r \in DOMAIN AlertsOfToday(after, type) :
                      r.schedule_instance_id = i}) = 1
  /\ OtherAlerts(after, type) = OtherAlerts(before, type)

\* C13: running detect_cross_day_conflict, or check_near_deadline, again on
\* the same day with unchanged data leaves exactly one TimeCrossDay, or
\* Reminder, alert per triggering occurrence, and each run leaves the alerts
\* of every other type and those of earlier days unchanged.
C13_ReemissionDoesNotAccumulate ==
  /\ OneAlertPerTrigger(route_alerts, CrossDayOn(route_alerts),
                        "TimeCrossDay", CrossDayTriggering)
  /\ OneAlertPerTrigger(CrossDayOn(route_alerts),
                        CrossDayOn(CrossDayOn(route_alerts)),
                        "TimeCrossDay", CrossDayTriggering)
  /\ CrossDayOn(CrossDayOn(route_alerts)) = CrossDayOn(route_alerts)
  /\ OneAlertPerTrigger(route_alerts, NearDeadlineOn(route_alerts),
                        "Reminder", ReminderTriggering)
  /\ OneAlertPerTrigger(NearDeadlineOn(route_alerts),
                        NearDeadlineOn(NearDeadlineOn(route_alerts)),
                        "Reminder", ReminderTriggering)
  /\ NearDeadlineOn(NearDeadlineOn(route_alerts)) = NearDeadlineOn(route_alerts)

\* both functions have run today on a row that triggers both, beside
\* yesterday's alerts and today's notification, and a further run of either
\* changes nothing
C13_Witness ==
  /\ \E i \in CrossDayTriggering \cap ReminderTriggering :
       /\ \E r \in DOMAIN AlertsOfToday(route_alerts, "TimeCrossDay") :
            r.schedule_instance_id = i
       /\ \E r \in DOMAIN AlertsOfToday(route_alerts, "Reminder") :
            r.schedule_instance_id = i
  /\ EarlierAlerts \subseteq DOMAIN route_alerts
  /\ CrossDayOn(route_alerts) = route_alerts
  /\ NearDeadlineOn(route_alerts) = route_alerts

\* ---- route responsibility and notify_responsible ----------------------------

\* route_schedules.route_id of the templates
route_id == (1 :> 1) @@ (2 :> 1) @@ (3 :> 2)

UserIds == {1, 2}
RouteIds == {1, 2}

\* role CHECK (role IN ('Primary', 'Backup', 'Observer'))
Roles == {"Primary", "Backup", "Observer"}

\* the id of the row with the key (route, user, role): UNIQUE(route_id,
\* user_id, role) makes key and id determine each other
ResponsibilityId(route, user, role) ==
  route * 100 + user * 10
    + (CASE role = "Primary" -> 1 [] role = "Backup" -> 2 [] OTHER -> 3)

\* at most this many alerts are raised in a scenario
MaxAlerts == 4

\* id UUID PRIMARY KEY DEFAULT uuid_generate_v4(): the value the INSERT
\* proposes, one that no earlier proposal for another key or assigner had
NewResponsibilityId(route, user, role, by) ==
  ResponsibilityId(route, user, role) * 10 + (IF by = NULL THEN 0 ELSE by)

\* VALUES (p_route_id, p_user_id, p_role, p_assigned_by), the other columns
\* by their defaults
ProposedResponsibility(route, user, role, by) ==
  [id          |-> NewResponsibilityId(route, user, role, by),
   route_id    |-> route,
   user_id     |-> user,
   role        |-> role,
   assigned_at |-> Now,
   assigned_by |-> by,
   is_active   |-> TRUE]

\* the stored rows that conflict on UNIQUE(route_id, user_id, role)
ConflictingRows(row) ==
  {r \in route_responsibility :
     r.route_id = row.route_id /\ r.user_id = row.user_id /\ r.role = row.role}

OnConflictDoUpdate_Replace(existing, proposed) == proposed
\* DO UPDATE SET is_active = true, assigned_at = now(),
\*   assigned_by = p_assigned_by: the existing row, its other columns kept
OnConflictDoUpdate(existing, proposed) ==
  [existing EXCEPT !.is_active = TRUE,
                   !.assigned_at = proposed.assigned_at,
                   !.assigned_by = proposed.assigned_by]

\* the row the statement leaves for the key, and the table with it
UpsertedRow(row) ==
  IF ConflictingRows(row) = {} THEN row
  ELSE OnConflictDoUpdate(CHOOSE e \in ConflictingRows(row) : TRUE, row)

UpsertedTable(row) ==
  (route_responsibility \ ConflictingRows(row)) \cup {UpsertedRow(row)}

\* assign_route_responsibility: INSERT ... ON CONFLICT (route_id, user_id,
\* role) DO UPDATE SET is_active = true, ... RETURNING id
AssignRouteResponsibility(route, user, role, by) ==
  LET row == ProposedResponsibility(route, user, role, by)
  IN  /\ role \in Roles
      /\ route_responsibility' = UpsertedTable(row)
      /\ call_result' = [op |-> "assign_route_responsibility",
                         id |-> UpsertedRow(row).id]
      /\ UNCHANGED core_vars
      /\ UNCHANGED <<clock, route_alerts, support_offer, vehicle_rows,
                     license_types, audit_logs, query_cache, form>>
      /\ UNCHANGED side_vars

\* update of route_responsibility.is_active to false through the table hook
DeactivateResponsibility(rr) ==
  /\ rr \in route_responsibility
  /\ rr.is_active
  /\ route_responsibility' =
       (route_responsibility \ {rr}) \cup {[rr EXCEPT !.is_active = FALSE]}
  /\ UNCHANGED core_vars
  /\ UNCHANGED <<clock, route_alerts, support_offer, vehicle_rows,
                 license_types, audit_logs, query_cache, form, call_result>>
  /\ UNCHANGED side_vars

\* SELECT rs.route_id INTO v_route_id FROM route_schedules rs WHERE rs.id = p
ScheduleRoute(p) == IF p \in DOMAIN route_schedules THEN route_id[p] ELSE NULL

\* the rows the FOR loop of notify_responsible(p) visits
ResponsibleRows(p) ==
  {rr \in route_responsibility :
     /\ ScheduleRoute(p) # NULL
     /\ rr.route_id = ScheduleRoute(p)
     /\ rr.is_active = TRUE}

\* the alert the loop body inserts for one visited row
NotificationFor(p, rr) ==
  [route_schedule_id    |-> p,
   schedule_instance_id |-> NULL,
   alert_type           |-> "Notification",
   title                |-> "Schedule Update",
   severity             |-> "Medium",
   is_read              |-> FALSE,
   created_for_user     |-> rr.user_id,
   created_at           |-> Now]

\* the alerts one call of notify_responsible(p) inserts: one per visited row
RECURSIVE NotificationsOf(_, _)
NotificationsOf(p, rows) ==
  IF rows = {} THEN EmptyBag
  ELSE LET rr == CHOOSE x \in rows : TRUE
       IN  SetToBag({NotificationFor(p, rr)})
             (+) NotificationsOf(p, rows \ {rr})

\* notify_responsible(p_schedule_id)
NotifyResponsible(p) ==
  /\ BagCardinality(route_alerts) < MaxAlerts
  /\ route_alerts' = route_alerts (+) NotificationsOf(p, ResponsibleRows(p))
  /\ UNCHANGED core_vars
  /\ UNCHANGED <<clock, route_responsibility, support_offer, vehicle_rows,
                 license_types, audit_logs, query_cache, form, call_result>>
  /\ UNCHANGED side_vars

\* templates 1 (route 1) and 3 (route 2), nobody responsible yet
InitNotify ==
  /\ route_schedules = [t \in {1, 3} |-> DetectionTemplate]
  /\ schedule_instances = {}
  /\ conflict_checks = EmptyBag
  /\ today = DetectionDate
  /\ pc = "idle"
  /\ txn_deleted = EmptyBag
  /\ txn_inserted = EmptyBag
  /\ reader_view = [rows |-> EmptyBag, at |-> "idle"]
  /\ ExtInit

\* the assignments of the scenario: both users on route 1 as Primary or
\* Backup, user 1 as Observer of route 2
NotifyKeys ==
  {<<1, u, role>> : u \in UserIds, role \in {"Primary", "Backup"}}
    \cup {<<2, 1, "Observer">>}

NextNotify ==
  \/ \E k \in NotifyKeys : AssignRouteResponsibility(k[1], k[2], k[3], NULL)
  \/ \E rr \in route_responsibility : DeactivateResponsibility(rr)
  \/ \E p \in TemplateIds : NotifyResponsible(p)

SpecNotify == InitNotify /\ [][NextNotify]_vars

\* ---- claims about the fan-out -----------------------------------------------

\* the users with an active assignment on the route of schedule p
ResponsibleUsers(p) == {rr.user_id : rr \in ResponsibleRows(p)}

\* C14: one call of notify_responsible for a schedule gives every user with
\* at least one active assignment on the schedule's route exactly one alert,
\* also a user with several active roles there, and a user with none, or with
\* only inactive ones, no alert.
C14_OneAlertPerResponsibleUser ==
  \A p \in DOMAIN route_schedules :
    LET new == NotificationsOf(p, ResponsibleRows(p))
    IN  \A u \in UserIds :
          BagCardinality([r \in {x \in DOMAIN new : x.created_for_user = u}
                            |-> CopiesIn(r, new)])
            = (IF u \in ResponsibleUsers(p) THEN 1 ELSE 0)

\* ---- tracked tables and audit_trigger_function ------------------------------

\* a NULL array of TEXT
NullTextArray == {NullText}

\* a NULL JSONB column
NullJsonb == [sql_null |-> TRUE]

\* NEW of a DELETE and OLD of an INSERT: a record whose fields are all NULL
NullRow == [id |-> NULL]

\* the tables of the scenario that carry the audit trigger
TrackedTables == {"vehicles", "license_types"}

\* the tables the CASE TG_TABLE_NAME of the trigger function lists
CaseTables ==
  {"drivers", "vehicles", "customers", "routes", "route_schedules",
   "schedule_instances", "users", "support_offer", "route_responsibility",
   "app_settings", "suggestion_config"}

\* ELSE v_record_id := 'unknown'; record_id holds id::text, written here as
\* the id, and no id is 0
UnknownRecordId == 0

\* the roles a database session runs as
SessionRoles == {"authenticated", "service_role"}

\* current_setting('app.client_ip', true): not set, an address, another text
ClientIpSettings == {NullText, "10.0.0.7", "not-an-address"}

\* current_setting('app.current_user_id', true)
UserIdSettings == {NullText, "1", "not-a-uuid"}

Sessions ==
  [role : SessionRoles, client_ip : ClientIpSettings, user_id : UserIdSettings]

\* text::INET and text::UUID: NULL stays NULL, a well-formed text is the
\* value, any other text raises
Cast(text, wellFormed) ==
  IF text = NullText THEN [raised |-> FALSE, value |-> NullText]
  ELSE IF text \in wellFormed THEN [raised |-> FALSE, value |-> text]
  ELSE [raised |-> TRUE, value |-> NullText]

InetCast(text) == Cast(text, {"10.0.0.7"})
UuidCast(text) == Cast(text, {"1"})

\* BEGIN v_user_id := ...::UUID; EXCEPTION WHEN OTHERS THEN v_user_id := NULL
CurrentUserId(session) ==
  IF UuidCast(session.user_id).raised THEN NullText
  ELSE UuidCast(session.user_id).value

\* to_jsonb of one column value: SQL NULL becomes the JSON value null; the
\* array column days_of_week and the text columns keep their own NULLs
JsonbOf(k, v) ==
  CASE k = "days_of_week" ->
         IF v = NullArray THEN <<"null">> ELSE <<"array", v>>
    [] k \in {"status", "offer_type", "message", "role"} ->
         IF v = NullText THEN <<"null">> ELSE <<"string", v>>
    [] k = "is_active" -> <<"boolean", v>>
    [] OTHER ->
         IF v = NULL THEN <<"null">> ELSE <<"number", v>>

\* to_jsonb(NEW), to_jsonb(OLD)
ToJsonb(row) == [k \in DOMAIN row |-> JsonbOf(k, row[k])]

\* SELECT key FROM jsonb_each(to_jsonb(NEW))
\*   WHERE to_jsonb(NEW) -> key != to_jsonb(OLD) -> key
ChangedFields(old, new) ==
  {k \in DOMAIN ToJsonb(new) : ToJsonb(new)[k] # ToJsonb(old)[k]}

\* CASE TG_TABLE_NAME WHEN ... THEN COALESCE(NEW.id::text, OLD.id::text)
RecordId(table, old, new) ==
  IF table \in CaseTables THEN COALESCE(new.id, old.id) ELSE UnknownRecordId

\* the row the trigger function inserts into audit_logs
AuditRecord(table, op, old, new, session) ==
  [table_name     |-> table,
   record_id      |-> RecordId(table, old, new),
   operation      |-> op,
   old_values     |-> IF op = "INSERT" THEN NullJsonb ELSE ToJsonb(old),
   new_values     |-> IF op = "DELETE" THEN NullJsonb ELSE ToJsonb(new),
   changed_fields |-> IF op = "UPDATE" THEN ChangedFields(old, new)
                      ELSE NullTextArray,
   user_id        |-> CurrentUserId(session),
   ip_address     |-> InetCast(session.client_ip).value]

\* ENABLE ROW LEVEL SECURITY on audit_logs with a policy FOR SELECT only: a
\* row is accepted from a role that bypasses row security, from no other
BypassesRowSecurity(role) == role = "service_role"

\* the trigger function ends in an error: the ::INET cast of the VALUES list
\* raises, or the INSERT INTO audit_logs is refused
AuditRaises(session) ==
  \/ InetCast(session.client_ip).raised
  \/ ~BypassesRowSecurity(session.role)

AppendAudit_Overwrite(logs, record) == SetToBag({record})
\* INSERT INTO audit_logs (...) VALUES (...)
AppendAudit(logs, record) == logs (+) SetToBag({record})

\* the rows of a tracked table
TableRows(table) == IF table = "vehicles" THEN vehicle_rows ELSE license_types

\* UNIQUE: vehicles.plate_number, license_types.license_code
UniqueKey(table, row) ==
  IF table = "vehicles" THEN row.plate_number ELSE row.license_code

\* the statement leaves the table with `rows` and breaks no UNIQUE constraint
KeepsUnique(table, rows) ==
  \A r1, r2 \in rows :
    UniqueKey(table, r1) = UniqueKey(table, r2) => r1 = r2

\* at most this many audit rows are written in a scenario
MaxAudit == 2

\* one INSERT, UPDATE or DELETE of one row of a tracked table, with its AFTER
\* ... FOR EACH ROW trigger: the statement and the trigger's insert take effect
\* together, or an error of either undoes both and goes to the caller
StatementOutcome(table, op, old, new, session) ==
  LET rows  == (TableRows(table) \ {old}) \cup (IF op = "DELETE" THEN {} ELSE {new})
      error == IF ~KeepsUnique(table, rows) THEN "unique_violation"
               ELSE IF AuditRaises(session) THEN "audit_trigger_function"
               ELSE NullText
  IN  [error |-> error,
       rows  |-> IF error = NullText THEN rows ELSE TableRows(table),
       audit |-> IF error = NullText
                 THEN AppendAudit(audit_logs,
                                  AuditRecord(table, op, old, new, session))
                 ELSE audit_logs]

\* the statement sent through the table hooks
TrackedStatement(table, op, old, new, session) ==
  LET out == StatementOutcome(table, op, old, new, session)
  IN  /\ table \in TrackedTables
      /\ BagCardinality(audit_logs) < MaxAudit
      /\ vehicle_rows' = (IF table = "vehicles" THEN out.rows ELSE vehicle_rows)
      /\ license_types' =
           (IF table = "license_types" THEN out.rows ELSE license_types)
      /\ audit_logs' = out.audit
      /\ call_result' = [op |-> op, table |-> table, old |-> old, new |-> new,
                         error |-> out.error]
      /\ UNCHANGED core_vars
      /\ UNCHANGED <<clock, route_alerts, route_responsibility, support_offer,
                     query_cache, form>>
      /\ UNCHANGED side_vars

\* the ids a table has handed out: of its rows and of the rows its audit
\* records describe (uuid_generate_v4 never repeats one)
UsedIds(table) ==
  {r.id : r \in TableRows(table)}
    \cup {a.record_id : a \in {x \in DOMAIN audit_logs : x.table_name = table}}
    \cup {a.old_values.id[2] :
            a \in {x \in DOMAIN audit_logs :
                     x.table_name = table /\ x.operation # "INSERT"}}
    \cup {a.new_values.id[2] :
            a \in {x \in DOMAIN audit_logs :
                     x.table_name = table /\ x.operation # "DELETE"}}

\* INSERT INTO a tracked table
InsertTracked(table, row, session) ==
  /\ row.id \notin UsedIds(table)
  /\ TrackedStatement(table, "INSERT", NullRow, row, session)

\* UPDATE of one row of a tracked table by id
UpdateTracked(table, old, new, session) ==
  /\ old \in TableRows(table)
  /\ new.id = old.id
  /\ new # old
  /\ TrackedStatement(table, "UPDATE", old, new, session)

\* DELETE of one row of a tracked table by id
DeleteTracked(table, old, session) ==
  /\ old \in TableRows(table)
  /\ TrackedStatement(table, "DELETE", old, NullRow, session)

\* vehicles rows: two plates, with or without a vehicle type
VehicleRows ==
  [id : VehicleIds, plate_number : {1, 2}, vehicle_type_id : {NULL, 1}]

\* license_types rows: one licence, with or without a description
LicenseTypeRows ==
  [id : {1}, license_code : {1}, description : {NULL, 1}]

\* the rows a tracked table can hold
RowsOf(table) == IF table = "vehicles" THEN VehicleRows ELSE LicenseTypeRows

InitAudit ==
  /\ route_schedules = [t \in {1} |-> DetectionTemplate]
  /\ schedule_instances = {}
  /\ conflict_checks = EmptyBag
  /\ today = DetectionDate
  /\ pc = "idle"
  /\ txn_deleted = EmptyBag
  /\ txn_inserted = EmptyBag
  /\ reader_view = [rows |-> EmptyBag, at |-> "idle"]
  /\ ExtInit

NextAudit ==
  \/ \E table \in TrackedTables, session \in Sessions :
       \E row \in RowsOf(table) : InsertTracked(table, row, session)
  \/ \E table \in TrackedTables, session \in Sessions :
       \E old \in TableRows(table), new \in RowsOf(table) :
         UpdateTracked(table, old, new, session)
  \/ \E table \in TrackedTables, session \in Sessions :
       \E old \in TableRows(table) : DeleteTracked(table, old, session)

SpecAudit == InitAudit /\ [][NextAudit]_vars

\* ---- route_schedules through the table hooks, with its audit trigger -------

\* the row of template t as the table stores it
TemplateRecord(t, row) == [id |-> t] @@ row

\* insert into route_schedules: NOT NULL and CHECK constraints of the table,
\* then the audit trigger
InsertTemplate(t, row, session) ==
  LET error == IF row.start_date = NULL \/ row.status \notin TemplateStatuses
               THEN "constraint_violation"
               ELSE IF AuditRaises(session) THEN "audit_trigger_function"
               ELSE NullText
  IN  /\ t \notin DOMAIN route_schedules
      /\ BagCardinality(audit_logs) < MaxAudit
      /\ route_schedules' =
           (IF error = NullText THEN (t :> row) @@ route_schedules
            ELSE route_schedules)
      /\ audit_logs' =
           (IF error = NullText
            THEN AppendAudit(audit_logs,
                   AuditRecord("route_schedules", "INSERT", NullRow,
                               TemplateRecord(t, row), session))
            ELSE audit_logs)
      /\ call_result' = [op |-> "INSERT", table |-> "route_schedules",
                         old |-> NullRow, new |-> TemplateRecord(t, row),
                         error |-> error]
      /\ UNCHANGED <<schedule_instances, conflict_checks, today, pc,
                     txn_deleted, txn_inserted, reader_view>>
      /\ UNCHANGED <<clock, route_alerts, route_responsibility, support_offer,
                     vehicle_rows, license_types, query_cache, form>>
      /\ UNCHANGED side_vars

\* update of one route_schedules row by id
UpdateTemplate(t, row, session) ==
  LET error == IF row.start_date = NULL \/ row.status \notin TemplateStatuses
               THEN "constraint_violation"
               ELSE IF AuditRaises(session) THEN "audit_trigger_function"
               ELSE NullText
  IN  /\ t \in DOMAIN route_schedules
      /\ row # route_schedules[t]
      /\ BagCardinality(audit_logs) < MaxAudit
      /\ route_schedules' =
           (IF error = NullText THEN [route_schedules EXCEPT ![t] = row]
            ELSE route_schedules)
      /\ audit_logs' =
           (IF error = NullText
            THEN AppendAudit(audit_logs,
                   AuditRecord("route_schedules", "UPDATE",
                               TemplateRecord(t, route_schedules[t]),
                               TemplateRecord(t, row), session))
            ELSE audit_logs)
      /\ call_result' = [op |-> "UPDATE", table |-> "route_schedules",
                         old |-> TemplateRecord(t, route_schedules[t]),
                         new |-> TemplateRecord(t, row), error |-> error]
      /\ UNCHANGED <<schedule_instances, conflict_checks, today, pc,
                     txn_deleted, txn_inserted, reader_view>>
      /\ UNCHANGED <<clock, route_alerts, route_responsibility, support_offer,
                     vehicle_rows, license_types, query_cache, form>>
      /\ UNCHANGED side_vars

\* the templates a caller submits: a rule with days, an empty one or none, a
\* range that ends before it starts, after it, or never
SubmittedTemplates ==
  [status            : {"Pending"},
   days_of_week      : {{}, {1, 2, 3}, NullArray},
   start_date        : {3},
   end_date          : EndDates,
   default_driver_id : {NULL},
   default_vehicle_id: {NULL},
   standby_time      : {NULL},
   departure_time    : {540}]

\* template 1 stored, its rule and range in order
InitTemplates ==
  /\ route_schedules =
       [t \in {1} |-> [DetectionTemplate EXCEPT !.days_of_week = {1, 2, 3}]]
  /\ schedule_instances = {}
  /\ conflict_checks = EmptyBag
  /\ today = DetectionDate
  /\ pc = "idle"
  /\ txn_deleted = EmptyBag
  /\ txn_inserted = EmptyBag
  /\ reader_view = [rows |-> EmptyBag, at |-> "idle"]
  /\ ExtInit

NextTemplates ==
  \/ \E t \in TemplateIds, session \in Sessions :
       \E row \in SubmittedTemplates : InsertTemplate(t, row, session)
  \/ \E t \in TemplateIds, session \in Sessions :
       \E row \in SubmittedTemplates : UpdateTemplate(t, row, session)

SpecTemplates == InitTemplates /\ [][NextTemplates]_vars

\* ---- claims about template validation ---------------------------------------

\* the recurrence rule is not empty and the range does not end before it starts
ValidTemplate(row) ==
  /\ row.days_of_week # {}
  /\ (row.end_date # NULL => row.start_date <= row.end_date)

\* C18: creating or updating a template with an empty recurrence rule, or
\* with an end_date earlier than its start_date, is rejected with an error
\* reported to the caller and leaves the stored templates unchanged.
C18_InvalidTemplateRejected ==
  [][(/\ call_result' # call_result
      /\ call_result'.op \in {"INSERT", "UPDATE"}
      /\ call_result'.table = "route_schedules"
      /\ ~ValidTemplate(call_result'.new))
       => (/\ call_result'.error # NullText
           /\ route_schedules' = route_schedules)]_vars

\* ---- VehicleForm over the vehicles hooks ------------------------------------

\* '' in a form field (no id and no plate is 0)
EmptyText == 0

\* the requests of the browser client carry the signed-in user's role
FormSessions == {x \in Sessions : x.role = "authenticated"}

\* the page mounts the form for a new vehicle or for one of the list;
\* defaultValues: vehicle?.plate_number || '', vehicle?.vehicle_type_id || ''
OpenVehicleForm(vehicle) ==
  /\ ~form.open
  /\ vehicle \in vehicle_rows \cup {NullRow}
  /\ form' = [open            |-> TRUE,
              vehicle         |-> vehicle.id,
              plate_number    |-> IF vehicle = NullRow THEN EmptyText
                                  ELSE vehicle.plate_number,
              vehicle_type_id |-> IF vehicle = NullRow THEN EmptyText
                                  ELSE IF vehicle.vehicle_type_id = NULL
                                       THEN EmptyText
                                       ELSE vehicle.vehicle_type_id,
              isSubmitting    |-> FALSE,
              toast           |-> form.toast]
  /\ UNCHANGED core_vars
  /\ UNCHANGED <<clock, route_alerts, route_responsibility, support_offer,
                 vehicle_rows, license_types, audit_logs, query_cache,
                 call_result>>
  /\ UNCHANGED side_vars

\* the user fills in the registered fields
EditVehicleForm(plate, type) ==
  /\ form.open
  /\ form' = [form EXCEPT !.plate_number = plate, !.vehicle_type_id = type]
  /\ UNCHANGED core_vars
  /\ UNCHANGED <<clock, route_alerts, route_responsibility, support_offer,
                 vehicle_rows, license_types, audit_logs, query_cache,
                 call_result>>
  /\ UNCHANGED side_vars

\* the close button: onClose
CloseVehicleForm ==
  /\ form.open
  /\ form' = [open |-> FALSE, toast |-> form.toast]
  /\ UNCHANGED core_vars
  /\ UNCHANGED <<clock, route_alerts, route_responsibility, support_offer,
                 vehicle_rows, license_types, audit_logs, query_cache,
                 call_result>>
  /\ UNCHANGED side_vars

\* what supabase.from('vehicles').insert / update(...).eq('id', id)
\* .select().single() answers for the form's data
SaveOutcome(f, id, session) ==
  LET editing == f.vehicle # NULL
      stored  == {r \in vehicle_rows : r.id = f.vehicle}
      old     == IF editing /\ stored # {} THEN CHOOSE r \in stored : TRUE
                 ELSE NullRow
      new     == [id              |-> IF editing THEN f.vehicle ELSE id,
                  plate_number    |-> f.plate_number,
                  vehicle_type_id |-> f.vehicle_type_id]
      op      == IF editing THEN "UPDATE" ELSE "INSERT"
      failed(e) == [error |-> e, rows |-> vehicle_rows, audit |-> audit_logs]
  IN  [op |-> op, old |-> old, new |-> new,
       out |-> IF f.vehicle_type_id = EmptyText
               THEN failed("invalid_text_representation")
               ELSE IF editing /\ stored = {} THEN failed("no_rows")
               ELSE StatementOutcome("vehicles", op, old, new, session)]

OnSubmitCatch_Closes(f) == [open |-> FALSE, toast |-> "error"]
\* catch (error) { toast.error(...) } finally { setIsSubmitting(false) }
OnSubmitCatch(f) == [f EXCEPT !.toast = "error", !.isSubmitting = FALSE]

\* toast.success(...); onClose(); finally { setIsSubmitting(false) }
OnSubmitSaved(f) == [open |-> FALSE, toast |-> "success"]

\* onSuccess of the mutation: invalidateQueries [['vehicles']]
Invalidate(cache) == cache \cup {"vehicles"}

\* handleSubmit(onSubmit): the schema wants a plate; the mutation throws the
\* error of the request, and only a request without error reaches onSuccess
SubmitVehicleForm(id, session) ==
  LET save == SaveOutcome(form, id, session)
      ok   == save.out.error = NullText
  IN  /\ form.open
      /\ form.plate_number # EmptyText
      /\ form.vehicle = NULL => id \notin UsedIds("vehicles")
      /\ BagCardinality(audit_logs) < MaxAudit
      /\ vehicle_rows' = save.out.rows
      /\ audit_logs' = save.out.audit
      /\ call_result' = [op |-> save.op, table |-> "vehicles",
                         old |-> save.old, new |-> save.new,
                         error |-> save.out.error]
      /\ query_cache' = (IF ok THEN Invalidate(query_cache) ELSE query_cache)
      /\ form' = (IF ok THEN OnSubmitSaved(form) ELSE OnSubmitCatch(form))
      /\ UNCHANGED core_vars
      /\ UNCHANGED <<clock, route_alerts, route_responsibility, support_offer,
                     license_types>>
      /\ UNCHANGED side_vars

\* the session of a back-office import: no client settings
ImportSession ==
  [role |-> "service_role", client_ip |-> NullText, user_id |-> NullText]

\* the vehicles an import stores
ImportedVehicles == {r \in VehicleRows : r.vehicle_type_id = 1}

\* the ids the form's inserts can get
FormVehicleIds == VehicleIds \cup {3}

NextForm ==
  \/ \E row \in ImportedVehicles : InsertTracked("vehicles", row, ImportSession)
  \/ \E vehicle \in vehicle_rows \cup {NullRow} : OpenVehicleForm(vehicle)
  \/ \E plate \in {EmptyText, 1, 2}, type \in {EmptyText, 1} :
       EditVehicleForm(plate, type)
  \/ CloseVehicleForm
  \/ \E id \in FormVehicleIds, session \in FormSessions :
       SubmitVehicleForm(id, session)

SpecForm == InitAudit /\ [][NextForm]_vars

\* ---- claims about the vehicle form ------------------------------------------

\* the plate in the form belongs to another vehicle than the edited one
PlateTaken ==
  /\ form.open
  /\ \E r \in vehicle_rows :
       r.plate_number = form.plate_number /\ r.id # form.vehicle

\* C19: saving a vehicle whose plate number belongs to another vehicle is
\* rejected: the vehicles table is unchanged, the mutation gives the caller
\* the error, the cached vehicle queries are not invalidated, the form reports
\* the failure and stays open; the form closes on a save only when the save
\* succeeded.
C19_DuplicatePlateRejected ==
  [][(\E id \in FormVehicleIds, session \in FormSessions :
        SubmitVehicleForm(id, session))
       => /\ PlateTaken =>
               /\ vehicle_rows' = vehicle_rows
               /\ call_result'.error # NullText
               /\ query_cache' = query_cache
               /\ form'.open
               /\ form'.toast = "error"
          /\ ~form'.open =>
               /\ call_result'.error = NullText
               /\ call_result'.new \in vehicle_rows'
               /\ form'.toast = "success"]_vars

\* the form holds the plate of another vehicle, a type is chosen, and the
\* save of that form was answered with the unique violation
C19_Witness ==
  /\ PlateTaken
  /\ form.vehicle_type_id # EmptyText
  /\ form.toast = "error"
  /\ call_result.op \in {"INSERT", "UPDATE"}
  /\ call_result.error = "unique_violation"
  /\ call_result.new.plate_number = form.plate_number
  /\ call_result.new \notin vehicle_rows
  /\ "vehicles" \notin query_cache

\* ---- claims about the audit log ---------------------------------------------

\* the fields whose values differ between two rows, NULL being a value
DifferingFields(old, new) == {k \in DOMAIN new : new[k] # old[k]}

\* the audit record the claims expect for the statement the caller ran
ExpectedAuditRecord(r, call) ==
  /\ r.table_name = call.table
  /\ r.record_id = (IF call.op = "DELETE" THEN call.old.id ELSE call.new.id)
  /\ r.operation = call.op
  /\ r.old_values = (IF call.op = "INSERT" THEN NullJsonb ELSE ToJsonb(call.old))
  /\ r.new_values = (IF call.op = "DELETE" THEN NullJsonb ELSE ToJsonb(call.new))
  /\ r.changed_fields = (IF call.op = "UPDATE"
                         THEN DifferingFields(call.old, call.new)
                         ELSE NullTextArray)

\* C15: every insert, update or delete on a tracked table appends exactly one
\* audit record with the table's name, the mutated row's id, the operation,
\* the prior snapshot (absent for an insert), the new snapshot (absent for a
\* delete) and, for an update only, exactly the fields whose values differ.
C15_OneAuditRecordPerMutation ==
  [][(vehicle_rows' # vehicle_rows \/ license_types' # license_types) =>
       \E r \in DOMAIN audit_logs' :
         /\ audit_logs' = audit_logs (+) SetToBag({r})
         /\ ExpectedAuditRecord(r, call_result')]_vars

\* the table holds what the statement of the last call asked for
Applied(call) ==
  CASE call.op = "INSERT" -> call.new \in TableRows(call.table)
    [] call.op = "UPDATE" -> call.new \in TableRows(call.table)
    [] call.op = "DELETE" -> call.old \notin TableRows(call.table)

\* C16: a failure while the audit entry is recorded never blocks or rolls
\* back the insert, update or delete that fired the trigger: a statement that
\* breaks no constraint of its own table takes effect.
C16_AuditFailureNeverBlocks ==
  (/\ call_result.op \in {"INSERT", "UPDATE", "DELETE"}
   /\ call_result.error # "unique_violation")
    => Applied(call_result)

\* C17: an audit record once written is never modified or removed: every
\* step leaves each record of audit_logs in place, with its copies.
C17_AuditLogAppendOnly == [][audit_logs \sqsubseteq audit_logs']_vars

\* a vehicle was inserted and later deleted, and the log holds both records
C17_Witness ==
  \E a, b \in DOMAIN audit_logs :
    /\ a.table_name = "vehicles" /\ b.table_name = "vehicles"
    /\ a.operation = "INSERT" /\ b.operation = "DELETE"
    /\ a.record_id = b.record_id
    /\ \A r \in vehicle_rows : r.id # a.record_id

\* ---- support offers: create_support_offer -----------------------------------

\* offer_type CHECK (offer_type IN ('Resource', 'Takeover', 'Assistance'))
OfferTypes == {"Resource", "Takeover", "Assistance"}

\* INTERVAL '24 hours'
OfferLifetimeHours == 24

MinutesPerHour == 60

ExpiresAt_OneHour(created) == created + MinutesPerHour
\* now() + INTERVAL '24 hours'
ExpiresAt(created) == created + OfferLifetimeHours * MinutesPerHour

\* the id the new support_offer row gets: one no row has
NewOfferId == Cardinality(support_offer) + 1

\* the row INSERT INTO support_offer (...) VALUES (...) stores: the columns
\* the statement names, the others by their defaults
OfferRow(args) ==
  [id                  |-> NewOfferId,
   route_schedule_id   |-> args.route_schedule_id,
   from_user_id        |-> args.from_user_id,
   to_user_id          |-> args.to_user_id,
   proposed_driver_id  |-> args.proposed_driver_id,
   proposed_vehicle_id |-> args.proposed_vehicle_id,
   offer_type          |-> args.offer_type,
   message             |-> args.message,
   status              |-> "Pending",
   expires_at          |-> ExpiresAt(Now),
   responded_at        |-> NULL,
   created_at          |-> Now]

\* the alert the function inserts after the offer
OfferAlert(args) ==
  [route_schedule_id    |-> args.route_schedule_id,
   schedule_instance_id |-> NULL,
   alert_type           |-> "Offer",
   title                |-> "New Support Offer",
   severity             |-> "Medium",
   is_read              |-> FALSE,
   created_for_user     |-> args.to_user_id,
   created_at           |-> Now]

\* create_support_offer(...): from_user_id NOT NULL, the offer_type CHECK and
\* the audit trigger of support_offer can each end the call in an error, which
\* leaves nothing stored; otherwise the offer and its alert are stored and the
\* offer's id returned
CreateSupportOffer(args, session) ==
  LET error == IF args.from_user_id = NULL \/ args.offer_type \notin OfferTypes
               THEN "constraint_violation"
               ELSE IF AuditRaises(session) THEN "audit_trigger_function"
               ELSE NullText
      ok    == error = NullText
  IN  /\ BagCardinality(audit_logs) < MaxAudit
      /\ support_offer' =
           (IF ok THEN support_offer \cup {OfferRow(args)} ELSE support_offer)
      /\ audit_logs' =
           (IF ok
            THEN AppendAudit(audit_logs,
                   AuditRecord("support_offer", "INSERT", NullRow,
                               OfferRow(args), session))
            ELSE audit_logs)
      /\ route_alerts' =
           (IF ok THEN route_alerts (+) SetToBag({OfferAlert(args)})
            ELSE route_alerts)
      /\ call_result' = [op |-> "create_support_offer", args |-> args,
                         id |-> IF ok THEN NewOfferId ELSE NULL,
                         error |-> error]
      /\ UNCHANGED core_vars
      /\ UNCHANGED <<clock, route_responsibility, vehicle_rows, license_types,
                     query_cache, form>>
      /\ UNCHANGED side_vars

\* the arguments of the scenario's calls
OfferArgs ==
  [route_schedule_id   : {1},
   from_user_id        : {NULL, 1},
   to_user_id          : {2},
   proposed_driver_id  : {NULL, 1},
   proposed_vehicle_id : {NULL, 2},
   message             : {NullText, "swap"},
   offer_type          : {"Resource", "Takeover", "Loan"}]

\* the sessions of the scenario's calls: no client settings
OfferSessions ==
  {x \in Sessions : x.client_ip = NullText /\ x.user_id = NullText}

NextOffer ==
  \/ \E args \in OfferArgs, session \in OfferSessions :
       CreateSupportOffer(args, session)
  \/ \E c \in ClockTimes : Tick(c)

SpecOffer == InitAudit /\ [][NextOffer]_vars

\* ---- claims about support offers --------------------------------------------

\* the stored offers with the id the last call returned
ReadBack == {o \in support_offer : o.id = call_result.id}

\* C20: an offer created by create_support_offer is stored with status
\* Pending and an expiry exactly 24 hours after its creation, and reading it
\* back by the returned id gives the template, sender, recipient, proposed
\* driver, proposed vehicle, message and type that were passed in.
C20_OfferStoredAsPassed ==
  /\ \A o \in support_offer :
       o.status = "Pending" /\ o.expires_at = o.created_at + MinutesPerDay
  /\ (call_result.op = "create_support_offer" /\ call_result.error = NullText)
       => /\ Cardinality(ReadBack) = 1
          /\ \A o \in ReadBack :
               /\ o.route_schedule_id = call_result.args.route_schedule_id
               /\ o.from_user_id = call_result.args.from_user_id
               /\ o.to_user_id = call_result.args.to_user_id
               /\ o.proposed_driver_id = call_result.args.proposed_driver_id
               /\ o.proposed_vehicle_id = call_result.args.proposed_vehicle_id
               /\ o.message = call_result.args.message
               /\ o.offer_type = call_result.args.offer_type

\* a second offer was created late in the day, with a driver, a vehicle and
\* a message, and is read back
C20_Witness ==
  /\ call_result.op = "create_support_offer"
  /\ call_result.error = NullText
  /\ call_result.args.proposed_driver_id # NULL
  /\ call_result.args.proposed_vehicle_id # NULL
  /\ call_result.args.message # NullText
  /\ Cardinality(support_offer) = 2
  /\ \E o \in ReadBack :
       o.created_at = Now /\ clock = 1410 /\ DATE(o.expires_at) = today + 1

\* ---- support offers: responses and the expiry sweep -------------------------

\* midnight passes: the next day begins
NextDay ==
  /\ today < MaxDate + 1
  /\ today' = today + 1
  /\ clock' = 0
  /\ UNCHANGED <<route_schedules, schedule_instances, conflict_checks, pc,
                 txn_deleted, txn_inserted, reader_view>>
  /\ UNCHANGED <<route_alerts, route_responsibility, support_offer,
                 vehicle_rows, license_types, audit_logs, query_cache, form,
                 call_result>>
  /\ UNCHANGED side_vars

\* the statuses a recipient answers with
ResponseStatuses == {"Accepted", "Rejected"}

\* the recipient answers an offer in force: UPDATE support_offer SET status,
\* responded_at = now() WHERE id = ... AND status = 'Pending', with the audit
\* trigger of the table
RespondToOffer(o, status, session) ==
  LET new   == [o EXCEPT !.status = status, !.responded_at = Now]
      error == IF AuditRaises(session) THEN "audit_trigger_function"
               ELSE NullText
      ok    == error = NullText
  IN  /\ o \in support_offer
      /\ o.status = "Pending"
      /\ Now <= o.expires_at
      /\ status \in ResponseStatuses
      /\ BagCardinality(audit_logs) < MaxAudit + 1
      /\ support_offer' =
           (IF ok THEN (support_offer \ {o}) \cup {new} ELSE support_offer)
      /\ audit_logs' =
           (IF ok
            THEN AppendAudit(audit_logs,
                   AuditRecord("support_offer", "UPDATE", o, new, session))
            ELSE audit_logs)
      /\ call_result' = [op |-> "respond_to_offer", id |-> o.id,
                         error |-> error]
      /\ UNCHANGED core_vars
      /\ UNCHANGED <<clock, route_alerts, route_responsibility, vehicle_rows,
                     license_types, query_cache, form>>
      /\ UNCHANGED side_vars

SweepTargets_AnyStatus ==
  {o \in support_offer : o.expires_at # NULL /\ o.expires_at < Now}
\* the rows of the sweep: WHERE status = 'Pending' AND expires_at < now()
SweepTargets ==
  {o \in support_offer :
     o.status = "Pending" /\ o.expires_at # NULL /\ o.expires_at < Now}

\* SET status = 'Expired'
Expire(o) == [o EXCEPT !.status = "Expired"]

\* the scheduled job's session: no client settings
SweepSession ==
  [role |-> "service_role", client_ip |-> NullText, user_id |-> NullText]

\* the scheduled sweep: one UPDATE over the rows of SweepTargets, the audit
\* trigger of the table firing for each row
SweepExpiredOffers ==
  /\ support_offer' =
       (support_offer \ SweepTargets) \cup {Expire(o) : o \in SweepTargets}
  /\ audit_logs' =
       audit_logs (+)
         SetToBag({AuditRecord("support_offer", "UPDATE", o, Expire(o),
                               SweepSession) : o \in SweepTargets})
  /\ call_result' = [op |-> "sweep_expired_offers",
                     count |-> Cardinality(SweepTargets)]
  /\ UNCHANGED core_vars
  /\ UNCHANGED <<clock, route_alerts, route_responsibility, vehicle_rows,
                 license_types, query_cache, form>>
  /\ UNCHANGED side_vars

\* the offers of the scenario: one sender, one recipient, one driver proposed
SweepArgs ==
  {a \in OfferArgs :
     /\ a.from_user_id = 1 /\ a.proposed_driver_id = 1
     /\ a.proposed_vehicle_id = NULL /\ a.message = NullText
     /\ a.offer_type = "Resource"}

NextSweep ==
  \/ \E args \in SweepArgs : CreateSupportOffer(args, SweepSession)
  \/ \E o \in support_offer, status \in ResponseStatuses :
       RespondToOffer(o, status, SweepSession)
  \/ SweepExpiredOffers
  \/ \E c \in ClockTimes : Tick(c)
  \/ NextDay

\* the sweep is scheduled: it runs again and again
SpecSweep ==
  InitAudit /\ [][NextSweep]_vars /\ WF_vars(SweepExpiredOffers)

\* ---- claims about the expiry sweep ------------------------------------------

\* the ids the offers of a scenario get
SweepOfferIds == 1 .. MaxAudit

\* the stored offer with this id has this status
OfferHasStatus(id, status) ==
  \E o \in support_offer : o.id = id /\ o.status = status

\* the offer with this id is Pending and its expiry has passed
PendingPastExpiry(id) ==
  \E o \in support_offer :
    o.id = id /\ o.status = "Pending" /\ o.expires_at < Now

\* the audit records of a move of this offer to Expired
ExpiryRecords(id) ==
  BagToSet(audit_logs) \cap
    {a \in DOMAIN audit_logs :
       /\ a.table_name = "support_offer" /\ a.operation = "UPDATE"
       /\ a.record_id = id /\ a.new_values.status = <<"string", "Expired">>}

MaxAssignAudit == 3

\* assign_route_responsibility called in a session: the INSERT or the DO
\* UPDATE fires audit_route_responsibility; an error of the trigger ends the
\* call and leaves the table as it was
AssignRouteResponsibilityAs(route, user, role, by, session) ==
  LET row      == ProposedResponsibility(route, user, role, by)
      conflict == ConflictingRows(row) # {}
      old      == IF conflict THEN CHOOSE e \in ConflictingRows(row) : TRUE
                  ELSE NullRow
      error    == IF AuditRaises(session) THEN "audit_trigger_function"
                  ELSE NullText
      ok       == error = NullText
  IN  /\ role \in Roles
      /\ BagCardinality(audit_logs) < MaxAssignAudit
      /\ route_responsibility' =
           (IF ok THEN UpsertedTable(row) ELSE route_responsibility)
      /\ audit_logs' =
           (IF ok
            THEN AppendAudit(audit_logs,
                   AuditRecord("route_responsibility",
                               IF conflict THEN "UPDATE" ELSE "INSERT",
                               old, UpsertedRow(row), session))
            ELSE audit_logs)
      /\ call_result' = [op |-> "assign_route_responsibility",
                         key |-> <<route, user, role>>, by |-> by,
                         id |-> IF ok THEN UpsertedRow(row).id ELSE NULL,
                         error |-> error]
      /\ UNCHANGED core_vars
      /\ UNCHANGED <<clock, route_alerts, support_offer, vehicle_rows,
                     license_types, query_cache, form>>
      /\ UNCHANGED side_vars

\* update of route_responsibility.is_active to false through the table hook,
\* in a session
DeactivateResponsibilityAs(rr, session) ==
  LET new   == [rr EXCEPT !.is_active = FALSE]
      error == IF AuditRaises(session) THEN "audit_trigger_function"
               ELSE NullText
      ok    == error = NullText
  IN  /\ rr \in route_responsibility
      /\ rr.is_active
      /\ BagCardinality(audit_logs) < MaxAssignAudit
      /\ route_responsibility' =
           (IF ok THEN (route_responsibility \ {rr}) \cup {new}
            ELSE route_responsibility)
      /\ audit_logs' =
           (IF ok
            THEN AppendAudit(audit_logs,
                   AuditRecord("route_responsibility", "UPDATE", rr, new,
                               session))
            ELSE audit_logs)
      /\ call_result' = [op |-> "UPDATE", table |-> "route_responsibility",
                         old |-> rr, new |-> new, error |-> error]
      /\ UNCHANGED core_vars
      /\ UNCHANGED <<clock, route_alerts, support_offer, vehicle_rows,
                     license_types, query_cache, form>>
      /\ UNCHANGED side_vars

\* the triples of the scenario
AssignKeys == {<<1, 1, "Primary">>, <<1, 1, "Backup">>, <<2, 2, "Primary">>}

\* p_assigned_by: the default NULL or a user
Assigners == {NULL} \cup UserIds

NextAssign ==
  \/ \E k \in AssignKeys, by \in Assigners, session \in OfferSessions :
       AssignRouteResponsibilityAs(k[1], k[2], k[3], by, session)
  \/ \E rr \in route_responsibility, session \in OfferSessions :
       DeactivateResponsibilityAs(rr, session)
  \/ \E c \in ClockTimes : Tick(c)

SpecAssign == InitAudit /\ [][NextAssign]_vars

\* ---- claims about assign_route_responsibility -------------------------------

\* the stored rows of a triple
RowsOfKey(rows, k) ==
  {r \in rows : <<r.route_id, r.user_id, r.role>> = k}

\* the step is a call of assign_route_responsibility that returned
AssignReturned ==
  /\ \E k \in AssignKeys, by \in Assigners, session \in OfferSessions :
       AssignRouteResponsibilityAs(k[1], k[2], k[3], by, session)
  /\ call_result'.error = NullText

\* C22: after any sequence of assign_route_responsibility calls there is at
\* most one row per (route, user, role); a call that returns for a triple
\* that already has a row, active or deactivated, adds no row, leaves that
\* row (same id) active with the new assigner and returns its id.
C22_OneAssignmentPerTriple ==
  /\ [](\A k \in AssignKeys :
          Cardinality(RowsOfKey(route_responsibility, k)) <= 1)
  /\ [][AssignReturned =>
          LET k == call_result'.key
          IN  \A e \in RowsOfKey(route_responsibility, k) :
                /\ Cardinality(route_responsibility')
                     = Cardinality(route_responsibility)
                /\ \E n \in RowsOfKey(route_responsibility', k) :
                     /\ n.id = e.id
                     /\ n.is_active
                     /\ n.assigned_by = call_result'.by
                     /\ call_result'.id = e.id]_vars

\* a triple assigned by user 1, deactivated, and assigned again by user 2:
\* its one row is active, has the id of the first call and the new assigner
C22_Witness ==
  /\ call_result.op = "assign_route_responsibility"
  /\ call_result.error = NullText
  /\ call_result.by = 2
  /\ \E a, b \in DOMAIN audit_logs :
       /\ a.table_name = "route_responsibility"
       /\ b.table_name = "route_responsibility"
       /\ a.operation = "UPDATE" /\ b.operation = "UPDATE"
       /\ a.record_id = call_result.id /\ b.record_id = call_result.id
       /\ a.new_values.is_active = <<"boolean", FALSE>>
       /\ b.old_values.is_active = <<"boolean", FALSE>>
       /\ b.new_values.is_active = <<"boolean", TRUE>>
       /\ b.old_values.assigned_by = <<"number", 1>>
       /\ b.new_values.assigned_by = <<"number", 2>>
  /\ \E r \in route_responsibility :
       r.id = call_result.id /\ r.is_active /\ r.assigned_by = 2

\* ---- suggestion engine: suggestConsolidations(date) -------------------------

\* suggestion_config defaults; the ratios in tenths (0.4, 0.6, 0.7)
DefaultConfig ==
  [min_gap_minutes           |-> 30,
   max_gap_minutes           |-> 240,
   max_distance_km           |-> 50,
   distance_weight           |-> 4,
   time_weight               |-> 6,
   efficiency_threshold      |-> 7,
   max_suggestions_per_route |-> 5]

\* the ratios of the configuration are held in tenths
RatioScale == 10

\* the routes of the scenario, by route code
SuggestRoutes == {1, 2, 3}

\* the ordered pairs of distinct routes
RoutePairs == {p \in SuggestRoutes \X SuggestRoutes : p[1] # p[2]}

\* gap = toRoute.departure - fromRoute.estimatedArrival, in minutes; no gap
\* without an occurrence of each route on the date
HasOccurrence(s, r) == s.occurrences[r].departure # NULL

Gap(s, f, t) == s.occurrences[t].departure - s.occurrences[f].arrival

\* the route-distance lookup
Distance(s, f, t) == s.distance[{f, t}]

\* efficiency = distanceWeight*(1 - distance/maxDistance)
\*            + timeWeight*(1 - gap/maxGap),
\* as the numerator over RatioScale * maxDistance * maxGap
Score(cfg, d, g) ==
  cfg.distance_weight * (cfg.max_distance_km - d) * cfg.max_gap_minutes
    + cfg.time_weight * (cfg.max_gap_minutes - g) * cfg.max_distance_km

\* the efficiency in ten-thousandths (0.8075 is 8075)
Efficiency(cfg, d, g) ==
  (Score(cfg, d, g) * (10000 \div RatioScale))
    \div (cfg.max_distance_km * cfg.max_gap_minutes)

MeetsThreshold_Strict(cfg, d, g) ==
  Score(cfg, d, g)
    > cfg.efficiency_threshold * cfg.max_distance_km * cfg.max_gap_minutes
\* efficiency >= efficiencyThreshold
MeetsThreshold(cfg, d, g) ==
  Score(cfg, d, g)
    >= cfg.efficiency_threshold * cfg.max_distance_km * cfg.max_gap_minutes

\* the pair passes the gap window, the distance limit and the threshold
Candidate(s, f, t) ==
  /\ f # t
  /\ HasOccurrence(s, f) /\ HasOccurrence(s, t)
  /\ Gap(s, f, t) >= s.config.min_gap_minutes
  /\ Gap(s, f, t) <= s.config.max_gap_minutes
  /\ Distance(s, f, t) <= s.config.max_distance_km
  /\ MeetsThreshold(s.config, Distance(s, f, t), Gap(s, f, t))

\* u comes before t among the results of source route f: higher score, then
\* lower gap, then route code order
RanksBefore(s, f, u, t) ==
  LET su == Score(s.config, Distance(s, f, u), Gap(s, f, u))
      st == Score(s.config, Distance(s, f, t), Gap(s, f, t))
  IN  \/ su > st
      \/ su = st /\ Gap(s, f, u) < Gap(s, f, t)
      \/ su = st /\ Gap(s, f, u) = Gap(s, f, t) /\ u < t

\* capped at maxSuggestionsPerRoute highest-scoring results per source route
WithinCap(s, f, t) ==
  Cardinality({u \in SuggestRoutes :
                 Candidate(s, f, u) /\ RanksBefore(s, f, u, t)})
    < s.config.max_suggestions_per_route

\* the pairs the run emits
EmittedPairs(s) ==
  {p \in RoutePairs : Candidate(s, p[1], p[2]) /\ WithinCap(s, p[1], p[2])}

\* the SuggestionRecord of a pair
SuggestionRecord(s, p) ==
  [from_route_id    |-> p[1],
   to_route_id      |-> p[2],
   suggestion_date  |-> DetectionDate,
   gap_minutes      |-> Gap(s, p[1], p[2]),
   distance_km      |-> Distance(s, p[1], p[2]),
   efficiency_score |-> Efficiency(s.config, Distance(s, p[1], p[2]),
                                   Gap(s, p[1], p[2]))]

\* UNIQUE(from_route_id, to_route_id, suggestion_date)
SuggestionKey(r) == <<r.from_route_id, r.to_route_id, r.suggestion_date>>

\* the upsert of one record: the stored row of its key takes the new values
\* and keeps its id and status; a key not stored gets a new row, Pending
Upserted(records, rec, id) ==
  LET stored == {r \in records : SuggestionKey(r) = SuggestionKey(rec)}
  IN  IF stored = {} THEN [id |-> id, status |-> "Pending"] @@ rec
      ELSE LET e == CHOOSE r \in stored : TRUE
           IN  [id |-> e.id, status |-> e.status] @@ rec

\* the id of the row a pair gets when it is first stored
NewSuggestionId(p) == p[1] * 10 + p[2]

\* suggestConsolidations(date): the emitted records are returned and
\* persisted by upsert
SuggestConsolidations ==
  LET emitted == {SuggestionRecord(suggest, p) : p \in EmittedPairs(suggest)}
      keys    == {SuggestionKey(r) : r \in emitted}
  IN  /\ suggest' =
           [suggest EXCEPT
              !.ran     = TRUE,
              !.emitted = emitted,
              !.records =
                {r \in suggest.records : SuggestionKey(r) \notin keys}
                  \cup {Upserted(suggest.records, SuggestionRecord(suggest, p),
                                 NewSuggestionId(p)) :
                          p \in EmittedPairs(suggest)}]
      /\ UNCHANGED core_vars
      /\ UNCHANGED ext_vars
      /\ UNCHANGED <<overview_rows, txn2, query, auth>>

\* UPDATE suggestion_config SET config_value = ... WHERE config_key =
\* 'max_suggestions_per_route' (min_value 1, max_value 20)
SetMaxSuggestionsPerRoute(n) ==
  /\ n \in 1 .. 20
  /\ n # suggest.config.max_suggestions_per_route
  /\ suggest' = [suggest EXCEPT !.config.max_suggestions_per_route = n,
                                !.ran = FALSE, !.emitted = {}]
  /\ UNCHANGED core_vars
  /\ UNCHANGED ext_vars
  /\ UNCHANGED <<overview_rows, txn2, query, auth>>

\* a planner decides on a stored suggestion
DecideSuggestion(r, status) ==
  /\ r \in suggest.records
  /\ r.status = "Pending"
  /\ status \in ResponseStatuses
  /\ suggest' = [suggest EXCEPT
                   !.records = (@ \ {r}) \cup {[r EXCEPT !.status = status]}]
  /\ UNCHANGED core_vars
  /\ UNCHANGED ext_vars
  /\ UNCHANGED <<overview_rows, txn2, query, auth>>

\* the occurrences of the date: route 1 arrives at 14:00; routes 2 and 3
\* depart after it at several gaps, or have no occurrence
SuggestOccurrences ==
  {[r \in SuggestRoutes |->
      CASE r = 1 -> [arrival |-> 840, departure |-> 600]
        [] r = 2 -> [arrival |-> 1300, departure |-> d2]
        [] r = 3 -> [arrival |-> 1320, departure |-> d3]] :
     d2 \in {869, 870, 880, 885, 1080, 1081}, d3 \in {NULL, 880, 885}}

\* the distances of the lookup, in km
SuggestDistances ==
  {[q \in {{1, 2}, {1, 3}, {2, 3}} |->
      CASE q = {1, 2} -> a [] q = {1, 3} -> b [] OTHER -> 60] :
     a \in {10, 25, 50, 51}, b \in {10, 25}}

InitSuggest ==
  /\ route_schedules = [t \in {1} |-> DetectionTemplate]
  /\ schedule_instances = {}
  /\ conflict_checks = EmptyBag
  /\ today = DetectionDate
  /\ pc = "idle"
  /\ txn_deleted = EmptyBag
  /\ txn_inserted = EmptyBag
  /\ reader_view = [rows |-> EmptyBag, at |-> "idle"]
  /\ clock = 470
  /\ route_alerts = EmptyBag
  /\ route_responsibility = {}
  /\ support_offer = {}
  /\ vehicle_rows = {}
  /\ license_types = {}
  /\ audit_logs = EmptyBag
  /\ query_cache = {}
  /\ form = NoForm
  /\ call_result = NoCall
  /\ overview_rows = {}
  /\ txn2 = NoTxn
  /\ query = NoQuery
  /\ auth = NoAuth
  /\ \E occ \in SuggestOccurrences, dist \in SuggestDistances :
       suggest = [occurrences |-> occ, distance |-> dist,
                  config |-> DefaultConfig, ran |-> FALSE, emitted |-> {},
                  records |-> {}]

NextSuggest ==
  \/ SuggestConsolidations
  \/ \E n \in {1, 5} : SetMaxSuggestionsPerRoute(n)
  \/ \E r \in suggest.records, status \in ResponseStatuses :
       DecideSuggestion(r, status)

SpecSuggest == InitSuggest /\ [][NextSuggest]_vars

\* ---- claims about the suggestion engine -------------------------------------

\* the conditions of the pair (f, t): gap window, distance limit, threshold
PairQualifies(s, f, t) ==
  /\ HasOccurrence(s, f) /\ HasOccurrence(s, t)
  /\ Gap(s, f, t) \in s.config.min_gap_minutes .. s.config.max_gap_minutes
  /\ Distance(s, f, t) <= s.config.max_distance_km
  /\ 10 * ((s.config.max_distance_km - Distance(s, f, t))
             * s.config.distance_weight * s.config.max_gap_minutes
           + (s.config.max_gap_minutes - Gap(s, f, t))
             * s.config.time_weight * s.config.max_distance_km)
       >= 10 * s.config.efficiency_threshold
            * s.config.max_distance_km * s.config.max_gap_minutes

\* the pairs of the records the last run returned
EmittedKeys == {<<r.from_route_id, r.to_route_id>> : r \in suggest.emitted}

\* the qualifying targets of f that score higher than t, or score the same
\* with a lower gap, or the same with the same gap and a lower route code
BetterTargets(s, f, t) ==
  {u \in SuggestRoutes \ {f, t} :
     /\ PairQualifies(s, f, u)
     /\ LET eu == Score(s.config, Distance(s, f, u), Gap(s, f, u))
            et == Score(s.config, Distance(s, f, t), Gap(s, f, t))
        IN  \/ eu > et
            \/ eu = et /\ Gap(s, f, u) < Gap(s, f, t)
            \/ eu = et /\ Gap(s, f, u) = Gap(s, f, t) /\ u < t}

\* with the default configuration a pair with gap 45 and distance 10 km
\* scores 0.8075 and is emitted; one stored record per (from, to, date)
ExampleAndSingleRecord ==
  /\ \A p \in RoutePairs :
       (/\ suggest.ran
        /\ suggest.config = DefaultConfig
        /\ HasOccurrence(suggest, p[1]) /\ HasOccurrence(suggest, p[2])
        /\ Gap(suggest, p[1], p[2]) = 45
        /\ Distance(suggest, p[1], p[2]) = 10)
         => \E r \in suggest.emitted :
              /\ <<r.from_route_id, r.to_route_id>> = p
              /\ r.gap_minutes = 45
              /\ r.efficiency_score = 8075
  /\ \A r1, r2 \in suggest.records :
       SuggestionKey(r1) = SuggestionKey(r2) => r1 = r2

\* C23 as stated: a record is emitted for an ordered pair of distinct routes
\* exactly when the gap lies in [minGapMinutes, maxGapMinutes], the distance
\* is at most maxDistanceKm and the efficiency is at least the threshold; the
\* default-configuration example scores 0.8075 and is emitted; re-running
\* leaves a single record per (fromRoute, toRoute, date).
C23_EmittedExactlyWhenQualifying ==
  /\ suggest.ran =>
       \A p \in RoutePairs :
         p \in EmittedKeys <=> PairQualifies(suggest, p[1], p[2])
  /\ ExampleAndSingleRecord

\* C23 amended: a record is emitted for an ordered pair exactly when the
\* pair qualifies as above and fewer than maxSuggestionsPerRoute qualifying
\* targets of the same source route rank before it (higher efficiency, then
\* lower gap, then route code); the example and the single record as stated.
C23_EmittedExactlyWhenQualifyingWithinCap ==
  /\ suggest.ran =>
       \A p \in RoutePairs :
         p \in EmittedKeys <=>
           /\ PairQualifies(suggest, p[1], p[2])
           /\ Cardinality(BetterTargets(suggest, p[1], p[2]))
                < suggest.config.max_suggestions_per_route
  /\ ExampleAndSingleRecord

\* with the cap at 1, routes 2 and 3 both qualify after route 1 and only
\* one record was emitted; the table still holds one row per pair, that of
\* (1, 2) decided by a planner and upserted again
C23_Witness ==
  /\ suggest.ran
  /\ suggest.config.max_suggestions_per_route = 1
  /\ PairQualifies(suggest, 1, 2) /\ PairQualifies(suggest, 1, 3)
  /\ Cardinality(suggest.emitted) = 1
  /\ \E r \in suggest.records :
       /\ <<r.from_route_id, r.to_route_id>> \in EmittedKeys
       /\ r.status = "Accepted"
  /\ Cardinality(suggest.records) = 2

\* ---- the materialized view and its refresh ----------------------------------

\* CREATE INDEX ... ON schedule_overview(...): the indexes of the view
OverviewIndexes ==
  {[column |-> "schedule_date", unique |-> FALSE],
   [column |-> "route_code",    unique |-> FALSE],
   [column |-> "driver_code",   unique |-> FALSE],
   [column |-> "status",        unique |-> FALSE],
   [column |-> "region",        unique |-> FALSE]}

\* REFRESH MATERIALIZED VIEW CONCURRENTLY wants a unique index on the view
CanRefreshConcurrently == \E i \in OverviewIndexes : i.unique

\* refresh_schedule_overview(): the view takes the result of its query, or
\* the statement raises and the stored rows stay
RefreshScheduleOverview ==
  /\ overview_rows' =
       (IF CanRefreshConcurrently THEN schedule_overview ELSE overview_rows)
  /\ call_result' =
       [op    |-> "refresh_schedule_overview",
        error |-> IF CanRefreshConcurrently THEN NullText
                  ELSE "object_not_in_prerequisite_state"]
  /\ UNCHANGED core_vars
  /\ UNCHANGED <<clock, route_alerts, route_responsibility, support_offer,
                 vehicle_rows, license_types, audit_logs, query_cache, form>>
  /\ UNCHANGED <<txn2, query, auth, suggest>>

\* the statements on templates and overrides, and the refresh
NextOverview ==
  \/ \E t \in TemplateIds, s \in TemplateStatuses : UpdateScheduleStatus(t, s)
  \/ \E t \in TemplateIds :
       \E row \in InstanceRows(t, DetectionDate) : InsertInstance(row)
  \/ \E si \in schedule_instances :
       \E row \in InstanceRows(si.route_schedule_id, si.schedule_date) :
         UpdateInstance(si, row)
  \/ RefreshScheduleOverview

SpecOverview == Init /\ [][NextOverview]_vars

\* ---- claims about the listing -----------------------------------------------

\* C24: after any mutation of a template or of an override row the next
\* read of schedule_overview reflects it: the rows the view holds are always
\* the materialization of the stored templates and overrides, with no
\* separately triggered refresh.
C24_ListingAlwaysCurrent ==
  [][(route_schedules' # route_schedules
        \/ schedule_instances' # schedule_instances)
       => overview_rows' = schedule_overview']_vars

\* ---- two concurrent runs of detect_schedule_conflicts -----------------------

\* the table as the second run's transaction sees it (READ COMMITTED): the
\* committed rows and its own changes
Txn2Visible == (conflict_checks (-) txn2.deleted) (+) txn2.inserted

\* a DELETE waits for the row locks of the other transaction: it goes on
\* when none of its rows is deleted there and not yet committed
NoLockedRow(targets, held) ==
  \A r \in BagToSet(targets) : ~BagIn(r, held)

\* the first run's DELETE, next to a second run
Txn1Delete ==
  /\ NoLockedRow(DeleteTargets(TxnVisible, today), txn2.deleted)
  /\ TxnDelete

\* the second run: DELETE FROM conflict_checks WHERE check_date = CURRENT_DATE
Txn2Delete ==
  /\ txn2.pc = "idle"
  /\ NoLockedRow(DeleteTargets(Txn2Visible, today), txn_deleted)
  /\ txn2' = [txn2 EXCEPT !.pc = "deleted",
                          !.deleted = DeleteTargets(Txn2Visible, today)]
  /\ UNCHANGED core_vars
  /\ UNCHANGED ext_vars
  /\ UNCHANGED <<overview_rows, query, auth, suggest>>

\* the second run: INSERT INTO conflict_checks ... 'Driver Overlap'
Txn2InsertDrivers ==
  /\ txn2.pc = "deleted"
  /\ txn2' = [txn2 EXCEPT !.pc = "drivers",
                          !.inserted = @ (+) SetToBag(DriverConflictRows)]
  /\ UNCHANGED core_vars
  /\ UNCHANGED ext_vars
  /\ UNCHANGED <<overview_rows, query, auth, suggest>>

\* the second run: INSERT INTO conflict_checks ... 'Vehicle Overlap'
Txn2InsertVehicles ==
  /\ txn2.pc = "drivers"
  /\ txn2' = [txn2 EXCEPT !.pc = "vehicles",
                          !.inserted = @ (+) SetToBag(VehicleConflictRows)]
  /\ UNCHANGED core_vars
  /\ UNCHANGED ext_vars
  /\ UNCHANGED <<overview_rows, query, auth, suggest>>

\* the second run's transaction commits
Txn2Commit ==
  /\ txn2.pc = "vehicles"
  /\ conflict_checks' = Txn2Visible
  /\ txn2' = NoTxn
  /\ UNCHANGED <<route_schedules, schedule_instances, today, pc, txn_deleted,
                 txn_inserted, reader_view>>
  /\ UNCHANGED ext_vars
  /\ UNCHANGED <<overview_rows, query, auth, suggest>>

NextConcurrent ==
  \/ \E t \in TemplateIds : \E row \in TxnRows(t) : InsertInstance(row)
  \/ Txn1Delete
  \/ TxnInsertDrivers
  \/ TxnInsertVehicles
  \/ TxnCommit
  \/ Txn2Delete
  \/ Txn2InsertDrivers
  \/ Txn2InsertVehicles
  \/ Txn2Commit

SpecConcurrent == InitDetect /\ [][NextConcurrent]_vars

\* ---- claims about concurrent runs -------------------------------------------

\* the double-booking a ConflictRecord is about
ConflictKey(r) == <<r.check_date, r.conflict_type, r.driver_id, r.vehicle_id>>

\* C25: in every interleaving of two concurrent runs for the same date, once
\* both have finished the table holds at most one ConflictRecord per (date,
\* conflict type, resource).
C25_NoDuplicatesAfterConcurrentRuns ==
  (pc = "idle" /\ txn2.pc = "idle") =>
    \A r1, r2 \in BagToSet(conflict_checks) :
      /\ CopiesIn(r1, conflict_checks) = 1
      /\ ConflictKey(r1) = ConflictKey(r2) => r1 = r2

\* ---- resolved conflicts and the next detection run --------------------------

\* status CHECK (status IN ('Open', 'Resolved', 'Ignored')): what a planner
\* sets on an open record
ResolutionStatuses == {"Resolved", "Ignored"}

\* a planner closes a ConflictRecord: UPDATE conflict_checks SET status,
\* resolution_notes, resolved_at = now() on one row
ResolveConflict(r, status, notes) ==
  /\ pc = "idle"
  /\ BagIn(r, conflict_checks)
  /\ r.status = "Open"
  /\ status \in ResolutionStatuses
  /\ conflict_checks' =
       (conflict_checks (-) SetToBag({r}))
         (+) SetToBag({[r EXCEPT !.status = status,
                                 !.resolution_notes = notes,
                                 !.resolved_at = Now]})
  /\ UNCHANGED <<route_schedules, schedule_instances, today, pc,
                 txn_deleted, txn_inserted, reader_view>>
  /\ UNCHANGED ext_vars
  /\ UNCHANGED side_vars

\* the overrides of the scenario: templates 1 and 2 on vehicle 2, or
\* withdrawn again
ResolveRows(t) == {r \in TxnRows(t) : r.driver_id \in {NULL, t}}

NextResolve ==
  \/ \E t \in TemplateIds : \E row \in ResolveRows(t) : InsertInstance(row)
  \/ \E si \in {x \in schedule_instances : x.schedule_date = today} :
       \E row \in ResolveRows(si.route_schedule_id) : UpdateInstance(si, row)
  \/ \E r \in BagToSet(conflict_checks), status \in ResolutionStatuses,
        notes \in {NullText, "swapped"} : ResolveConflict(r, status, notes)
  \/ DetectScheduleConflicts
  \/ ReadConflicts

SpecResolve == InitDetect /\ [][NextResolve]_vars

\* ---- claims about resolved conflicts ----------------------------------------

\* the vehicles double-booked today: two or more overrides that count
DoubleBookedVehicles ==
  {v \in VehicleIds :
     Cardinality({si \in schedule_instances :
                    /\ si.schedule_date = today /\ si.vehicle_id = v
                    /\ si.status \in {"Scheduled", "Confirmed"}
                    /\ si.is_deleted = FALSE}) > 1}

\* C26: after detect_schedule_conflicts completes, every ConflictRecord of
\* the current date is Open without resolution notes or resolved time; a
\* record marked Resolved or Ignored is discarded and, when the
\* double-booking still exists, there is a fresh Open record for it; the
\* records of other dates are as they were.
C26_RunReopensTodaysConflicts ==
  [][DetectScheduleConflicts =>
       /\ \A r \in BagToSet(conflict_checks') :
            r.check_date = today =>
              /\ r.status = "Open"
              /\ r.resolution_notes = NullText
              /\ r.resolved_at = NULL
       /\ \A v \in DoubleBookedVehicles :
            \E r \in BagToSet(conflict_checks') :
              /\ r.check_date = today /\ r.vehicle_id = v
              /\ r.conflict_type = "Vehicle Overlap" /\ r.status = "Open"
       /\ \A d \in 0 .. MaxDate :
            d # today =>
              RowsOfDate(conflict_checks', d) = RowsOfDate(conflict_checks, d)
      ]_vars

\* a reader saw today's vehicle conflict Resolved with notes; the run since
\* left an Open record without notes for the vehicle, still double-booked,
\* and yesterday's record stayed Ignored
C26_Witness ==
  /\ \E r \in DOMAIN reader_view.rows :
       /\ r.vehicle_id = 2 /\ r.status = "Resolved"
       /\ r.resolution_notes = "swapped" /\ r.resolved_at # NULL
  /\ 2 \in DoubleBookedVehicles
  /\ \A r \in BagToSet(conflict_checks) :
       r.check_date = today =>
         r.status = "Open" /\ r.resolution_notes = NullText
  /\ \E r \in BagToSet(conflict_checks) :
       r.check_date = today /\ r.vehicle_id = 2
  /\ \E r \in BagToSet(conflict_checks) :
       r.check_date = today - 1 /\ r.status = "Ignored"

\* ---- check_near_deadline late in the day ------------------------------------

\* the overrides of the deadline scenario: departure at 08:20, at 23:50 or
\* none
DeadlineRows(t) ==
  [id               : {InstanceId(t, DetectionDate)},
   route_schedule_id: {t},
   schedule_date    : {DetectionDate},
   driver_id        : {NULL},
   vehicle_id       : {NULL},
   standby_date     : {NULL},
   standby_time     : {NULL},
   departure_date   : {NULL},
   departure_time   : {NULL, 500, 1430},
   status           : InstanceStatuses,
   is_deleted       : BOOLEAN]

NextDeadline ==
  \/ \E t \in TemplateIds : \E row \in DeadlineRows(t) : InsertInstance(row)
  \/ \E si \in {x \in schedule_instances : x.schedule_date = today} :
       \E row \in DeadlineRows(si.route_schedule_id) : UpdateInstance(si, row)
  \/ CheckNearDeadline
  \/ \E c \in ClockTimes : Tick(c)

SpecDeadline == InitAlerts /\ [][NextDeadline]_vars

\* ---- claims about check_near_deadline ---------------------------------------

\* the occurrences of today that depart within the next 60 minutes
DepartingSoon ==
  {si.id : si \in {x \in schedule_instances :
                     /\ x.schedule_date = today
                     /\ x.is_deleted = FALSE
                     /\ x.status \in {"Scheduled", "Confirmed"}
                     /\ x.departure_time # NULL
                     /\ x.departure_time >= clock
                     /\ x.departure_time - clock <= 60}}

\* the occurrences today's Reminder alerts of a route_alerts bag are about
RemindedToday(alerts) ==
  {r.schedule_instance_id : r \in DOMAIN AlertsOfToday(alerts, "Reminder")}

\* C27: a run of check_near_deadline leaves a Reminder for every non-deleted
\* occurrence of the current date with status Scheduled or Confirmed that
\* departs within the next 60 minutes, and for no other occurrence, at every
\* time of day, the last hour before midnight included.
C27_RemindersAtEveryTimeOfDay ==
  RemindedToday(NearDeadlineOn(route_alerts)) = DepartingSoon

\* ---- useSupabaseQuery: retry and retryDelay ---------------------------------

\* error.message of a failed request, word by word; <<>> is an error
\* without a message
ErrorMessages ==
  {<<"JWT", "expired">>,
   <<"permission", "denied", "for", "table">>,
   <<"Permission", "denied">>,
   <<"Failed", "to", "fetch">>,
   <<"signal", "is", "aborted">>,
   <<>>}

\* error?.message?.includes(word)
Includes(message, word) == \E i \in 1 .. Len(message) : message[i] = word

Retry_ThreeRetries(failureCount, message) ==
  IF Includes(message, "JWT") \/ Includes(message, "permission") THEN FALSE
  ELSE failureCount < 3
\* retry: (failureCount, error) => ...
Retry(failureCount, message) ==
  IF Includes(message, "JWT") \/ Includes(message, "permission") THEN FALSE
  ELSE failureCount < 2

\* 2 ** n
Pow2(n) == IF n = 0 THEN 1 ELSE IF n = 1 THEN 2 ELSE IF n = 2 THEN 4 ELSE 8

\* Math.min(a, b)
Min(a, b) == IF a <= b THEN a ELSE b

\* retryDelay: (attemptIndex) => Math.min(1000 * 2 ** attemptIndex, 30000)
RetryDelay(attemptIndex) == Min(1000 * Pow2(attemptIndex), 30000)

\* the observer mounts, or the query is fetched again after it settled
FetchQuery ==
  /\ query.status \in {"idle", "success", "error"}
  /\ query' = [status |-> "fetching", failureCount |-> 0, attempts |-> 1,
               failures |-> <<>>, delays |-> <<>>]
  /\ UNCHANGED core_vars
  /\ UNCHANGED ext_vars
  /\ UNCHANGED <<overview_rows, txn2, auth, suggest>>

\* queryFn returns data || []
QueryFnReturns ==
  /\ query.status = "fetching"
  /\ query' = [query EXCEPT !.status = "success"]
  /\ UNCHANGED core_vars
  /\ UNCHANGED ext_vars
  /\ UNCHANGED <<overview_rows, txn2, auth, suggest>>

\* queryFn throws (the request's error, or the abort after 10 seconds):
\* useQuery asks retry with the failures so far; on true it counts the
\* failure and waits retryDelay of that count, on false it gives the error
\* to the caller
QueryFnThrows(message) ==
  /\ query.status = "fetching"
  /\ message \in ErrorMessages
  /\ query' =
       IF Retry(query.failureCount, message)
       THEN [query EXCEPT
               !.status = "waiting",
               !.failures = Append(@, message),
               !.delays = Append(@, RetryDelay(query.failureCount)),
               !.failureCount = @ + 1]
       ELSE [query EXCEPT
               !.status = "error",
               !.failures = Append(@, message)]
  /\ UNCHANGED core_vars
  /\ UNCHANGED ext_vars
  /\ UNCHANGED <<overview_rows, txn2, auth, suggest>>

\* the delay is over: queryFn runs again
RetryQueryFn ==
  /\ query.status = "waiting"
  /\ query' = [query EXCEPT !.status = "fetching", !.attempts = @ + 1]
  /\ UNCHANGED core_vars
  /\ UNCHANGED ext_vars
  /\ UNCHANGED <<overview_rows, txn2, auth, suggest>>

NextQuery ==
  \/ FetchQuery
  \/ QueryFnReturns
  \/ \E message \in ErrorMessages : QueryFnThrows(message)
  \/ RetryQueryFn

SpecQuery == InitAudit /\ [][NextQuery]_vars

\* ---- claims about the query hook --------------------------------------------

\* the message mentions 'JWT' or 'permission'
AuthFailure(message) ==
  \E i \in DOMAIN message : message[i] \in {"JWT", "permission"}

\* 1000 * 2^i, capped at 30000
ExpectedDelay(i) ==
  LET d == IF i = 0 THEN 1000 ELSE IF i = 1 THEN 2000 ELSE 4000
  IN  IF d > 30000 THEN 30000 ELSE d

\* C28: a query whose error message mentions 'JWT' or 'permission' is never
\* retried; any other failing query is attempted at most 3 times in total
\* before its error is surfaced, and it is surfaced then; the delay before
\* retry i is min(1000 * 2^i, 30000) ms.
C28_RetryOnlyNonAuthFailures ==
  query.status # "idle" =>
    /\ query.attempts <= 3
    /\ query.attempts =
         Len(query.failures) + (IF query.status \in {"fetching", "success"}
                                THEN 1 ELSE 0)
    /\ \A i \in 1 .. Len(query.failures) :
         AuthFailure(query.failures[i]) =>
           /\ i = Len(query.failures)
           /\ query.status = "error"
    /\ query.status = "error" =>
         \/ AuthFailure(query.failures[Len(query.failures)])
         \/ query.attempts = 3
    /\ Len(query.delays) =
         Len(query.failures) - (IF query.status = "error" THEN 1 ELSE 0)
    /\ \A i \in 1 .. Len(query.delays) :
         query.delays[i] = ExpectedDelay(i - 1)

\* a request failed three times on the network and the error was surfaced
\* after delays of 1 and 2 seconds
C28_Witness ==
  /\ query.status = "error"
  /\ query.attempts = 3
  /\ query.failures = <<<<"Failed", "to", "fetch">>, <<>>,
                        <<"signal", "is", "aborted">>>>
  /\ query.delays = <<1000, 2000>>

\* ---- useAuth ----------------------------------------------------------------

\* role CHECK (role IN ('Admin', 'Planner', 'Viewer'))
UserRoles == {"Admin", "Planner", "Viewer"}

\* the users of the auth scenario
AuthUserIds == {1, 2}

\* useState<User | null>(null)
NoUser == [id |-> NULL]

\* no row of the users table for an id
NoProfile == [role |-> NullText, status |-> NullText]

\* the hook before its component mounts: the users table and the auth
\* server's signed-in user are there already
AuthUnmounted(users, authUser) ==
  [mounted  |-> FALSE,
   loading  |-> TRUE,
   user     |-> NoUser,
   session  |-> NULL,
   error    |-> NullText,
   timer    |-> FALSE,
   init     |-> "none",
   fetches  |-> {},
   signin   |-> NULL,
   events   |-> {},
   log      |-> NullText,
   authUser |-> authUser,
   users    |-> users]

\* the row of the users table as select('*') / insert().select() returns it
StoredUser(a, id) ==
  [id        |-> id,
   user_code |-> "USR",
   role      |-> a.users[id].role,
   status    |-> a.users[id].status]

\* { id: ..., email, name, role: 'Viewer', status: 'Active' }
NewUser == [role |-> "Viewer", status |-> "Active"]

TempUser_AsAdmin(id) ==
  [id |-> id, user_code |-> "TEMP", role |-> "Admin", status |-> "Active"]
\* { id: authUser.user.id, user_code: 'TEMP', ..., role: 'Viewer',
\*   status: 'Active', ... } as User
TempUser(id) ==
  [id |-> id, user_code |-> "TEMP", role |-> "Viewer", status |-> "Active"]

\* setUser(...) with the console message of its branch
SetUser(a, user, log) == [a EXCEPT !.user = user, !.log = log]

ProfileFinally_KeepsLoading(a, f) ==
  [a EXCEPT !.fetches = @ \ {f},
            !.init = IF f.owner = "init" THEN "done" ELSE @]
\* finally { setLoading(false) }: fetchUserProfile returns to its caller
ProfileFinally(a, f) ==
  [a EXCEPT !.loading = FALSE,
            !.fetches = @ \ {f},
            !.init = IF f.owner = "init" THEN "done" ELSE @]

\* the exception of fetchUserProfile reaches initAuth's catch: setError,
\* setLoading(false); in the auth listener it is an unhandled rejection
ProfileRejects(a, f) ==
  IF f.owner = "init"
  THEN [ProfileFinally(a, f) EXCEPT !.error = "connection", !.loading = FALSE]
  ELSE ProfileFinally(a, f)

\* fetchUserProfile(userId) is called: the select is sent
StartFetch(a, userId, owner) ==
  [a EXCEPT !.fetches = @ \cup {[userId |-> userId, pc |-> "select",
                                 owner |-> owner, authUser |-> NULL]}]

\* the rest of the model leaves everything but the hook alone
AuthOnly ==
  /\ UNCHANGED core_vars
  /\ UNCHANGED ext_vars
  /\ UNCHANGED <<overview_rows, txn2, query, suggest>>

\* the component mounts: useState initial values, the effect starts initAuth
\* (timer set, getSession sent) and subscribes; the client then reports the
\* session it holds as its first auth event
MountAuth ==
  /\ ~auth.mounted
  /\ auth' = [AuthUnmounted(auth.users, auth.authUser) EXCEPT
                !.mounted = TRUE, !.timer = TRUE, !.init = "getSession",
                !.events = {auth.authUser}]
  /\ AuthOnly

\* the effect's cleanup: mounted = false, clearTimeout, unsubscribe; what is
\* still in flight returns without touching the state
UnmountAuth ==
  /\ auth.mounted
  /\ auth' = AuthUnmounted(auth.users, auth.authUser)
  /\ AuthOnly

\* setTimeout(() => { if (mounted && loading) ... }, 10000): `loading` is the
\* value of the first render, true
TimerFires ==
  /\ auth.mounted
  /\ auth.timer
  /\ auth' = [auth EXCEPT !.timer = FALSE, !.loading = FALSE,
                          !.error = "timeout"]
  /\ AuthOnly

\* await supabase.auth.getSession() settles: a session or none, a session
\* error, or an exception
GetSessionAnswers(outcome) ==
  /\ auth.mounted
  /\ auth.init = "getSession"
  /\ outcome \in {"session", "error", "throws"}
  /\ auth' =
       CASE outcome = "error" ->
              [auth EXCEPT !.timer = FALSE, !.error = "session",
                           !.loading = FALSE, !.init = "done"]
         [] outcome = "throws" ->
              [auth EXCEPT !.timer = FALSE, !.error = "connection",
                           !.loading = FALSE, !.init = "done"]
         [] OTHER ->
              IF auth.authUser # NULL
              THEN StartFetch([auth EXCEPT !.timer = FALSE,
                                           !.session = auth.authUser,
                                           !.init = "profile"],
                              auth.authUser, "init")
              ELSE [auth EXCEPT !.timer = FALSE, !.session = NULL,
                                !.loading = FALSE, !.init = "done"]
  /\ AuthOnly

\* onAuthStateChange(async (event, session) => ...): the client awaits the
\* callback of one event before it raises the next
DeliverAuthEvent(e) ==
  /\ auth.mounted
  /\ e \in auth.events
  /\ \A f \in auth.fetches : f.owner # "listener"
  /\ auth' =
       LET a == [auth EXCEPT !.events = @ \ {e}, !.session = e,
                             !.error = NullText]
       IN  IF e # NULL THEN StartFetch(a, e, "listener")
           ELSE [SetUser(a, NoUser, NullText) EXCEPT !.loading = FALSE]
  /\ AuthOnly

\* the select of fetchUserProfile settles: the row, no row (PGRST116),
\* another database error, or an exception
ProfileSelectAnswers(f, outcome) ==
  /\ auth.mounted
  /\ f \in auth.fetches
  /\ f.pc = "select"
  /\ outcome \in {"data", "missing", "dberror", "throws"}
  /\ outcome = "data" => auth.users[f.userId] # NoProfile
  /\ outcome = "missing" => auth.users[f.userId] = NoProfile
  /\ auth' =
       LET next(at) == [auth EXCEPT !.fetches =
                          (@ \ {f}) \cup {[f EXCEPT !.pc = at]}]
       IN  CASE outcome = "data" ->
                  ProfileFinally(SetUser(auth, StoredUser(auth, f.userId),
                                         "loaded"), f)
             [] outcome = "missing" -> next("getUserMissing")
             [] outcome = "dberror" -> next("getUserDbError")
             [] OTHER -> next("getUserCatch")
  /\ AuthOnly

\* await supabase.auth.getUser() settles in one of the three branches: the
\* signed-in user or none, or an exception
GetUserAnswers(f, outcome) ==
  /\ auth.mounted
  /\ f \in auth.fetches
  /\ f.pc \in {"getUserMissing", "getUserDbError", "getUserCatch"}
  /\ outcome \in {"user", "throws"}
  /\ auth' =
       IF outcome = "throws"
       THEN IF f.pc = "getUserCatch" THEN ProfileRejects(auth, f)
            ELSE [auth EXCEPT !.fetches =
                    (@ \ {f}) \cup {[f EXCEPT !.pc = "getUserCatch"]}]
       ELSE IF auth.authUser = NULL THEN ProfileFinally(auth, f)
       ELSE IF f.pc = "getUserMissing"
            THEN [auth EXCEPT !.fetches =
                    (@ \ {f}) \cup {[f EXCEPT !.pc = "insert",
                                              !.authUser = auth.authUser]}]
            ELSE ProfileFinally(SetUser(auth, TempUser(auth.authUser),
                                        "temporary"), f)
  /\ AuthOnly

\* the insert of the new profile settles: the created row, an error, or an
\* exception
InsertProfileAnswers(f, outcome) ==
  /\ auth.mounted
  /\ f \in auth.fetches
  /\ f.pc = "insert"
  /\ outcome \in {"created", "error", "throws"}
  /\ outcome = "created" => auth.users[f.authUser] = NoProfile
  /\ auth' =
       CASE outcome = "created" ->
              LET a == [auth EXCEPT !.users[f.authUser] = NewUser]
              IN  ProfileFinally(SetUser(a, StoredUser(a, f.authUser),
                                         "created"), f)
         [] outcome = "error" ->
              ProfileFinally(SetUser(auth, TempUser(f.authUser),
                                     "temporary"), f)
         [] OTHER ->
              [auth EXCEPT !.fetches =
                 (@ \ {f}) \cup {[f EXCEPT !.pc = "getUserCatch"]}]
  /\ AuthOnly

\* signIn(email, password): setError(null), setLoading(true), the request
SignIn(u) ==
  /\ auth.mounted
  /\ auth.signin = NULL
  /\ u \in AuthUserIds
  /\ auth' = [auth EXCEPT !.error = NullText, !.loading = TRUE, !.signin = u]
  /\ AuthOnly

\* signInWithPassword settles: signed in (the client raises the auth event)
\* or an error (catch: setLoading(false), throw)
SignInAnswers(ok) ==
  /\ auth.mounted
  /\ auth.signin # NULL
  /\ auth' =
       IF ok
       THEN [auth EXCEPT !.signin = NULL, !.authUser = auth.signin,
                         !.events = @ \cup {auth.signin}]
       ELSE [auth EXCEPT !.signin = NULL, !.loading = FALSE]
  /\ AuthOnly

\* signOut(): the client raises the auth event without a session
SignOut ==
  /\ auth.mounted
  /\ auth.authUser # NULL
  /\ auth' = [auth EXCEPT !.error = NullText, !.authUser = NULL,
                          !.events = @ \cup {NULL}]
  /\ AuthOnly

\* signUp(email, password, name): the profile row { role: 'Viewer',
\* status: 'Active' } is inserted for the new auth user
SignUp(u) ==
  /\ auth.mounted
  /\ u \in AuthUserIds
  /\ auth.users[u] = NoProfile
  /\ auth' = [auth EXCEPT !.error = NullText, !.users[u] = NewUser]
  /\ AuthOnly

\* updateProfile(updates): the stored row of the current user is updated
\* and the returned row becomes the user
UpdateProfile(role) ==
  /\ auth.mounted
  /\ auth.user # NoUser
  /\ auth.users[auth.user.id] # NoProfile
  /\ role \in UserRoles
  /\ auth' =
       LET a == [auth EXCEPT !.users[auth.user.id].role = role]
       IN  SetUser(a, StoredUser(a, auth.user.id), "updated")
  /\ AuthOnly

\* an administrator changes the role of a stored profile
ChangeRole(u, role) ==
  /\ auth.users[u] # NoProfile
  /\ role \in UserRoles
  /\ auth.users[u].role # role
  /\ auth' = [auth EXCEPT !.users[u].role = role]
  /\ AuthOnly

\* the steps the runtime takes by itself: timers and settled requests
\* (getSession aside, which may stay unanswered)
AuthRequestSettles ==
  \/ \E f \in auth.fetches,
        outcome \in {"data", "missing", "dberror", "throws"} :
       ProfileSelectAnswers(f, outcome)
  \/ \E f \in auth.fetches, outcome \in {"user", "throws"} :
       GetUserAnswers(f, outcome)
  \/ \E f \in auth.fetches, outcome \in {"created", "error", "throws"} :
       InsertProfileAnswers(f, outcome)

\* the rest of the model is idle; the auth server knows one of authUsers as
\* signed in and user 1 has one of profiles in the users table
InitAuthWith(authUsers, profiles) ==
  /\ route_schedules = [t \in {1} |-> DetectionTemplate]
  /\ schedule_instances = {}
  /\ conflict_checks = EmptyBag
  /\ today = DetectionDate
  /\ pc = "idle"
  /\ txn_deleted = EmptyBag
  /\ txn_inserted = EmptyBag
  /\ reader_view = [rows |-> EmptyBag, at |-> "idle"]
  /\ clock = 470
  /\ route_alerts = EmptyBag
  /\ route_responsibility = {}
  /\ support_offer = {}
  /\ vehicle_rows = {}
  /\ license_types = {}
  /\ audit_logs = EmptyBag
  /\ query_cache = {}
  /\ form = NoForm
  /\ call_result = NoCall
  /\ overview_rows = {}
  /\ txn2 = NoTxn
  /\ query = NoQuery
  /\ suggest = NoSuggest
  /\ \E authUser \in authUsers, profile \in profiles :
       auth = AuthUnmounted([u \in AuthUserIds |->
                               IF u = 1 THEN profile ELSE NoProfile],
                            authUser)

\* a browser that may hold the session of user 1, signed up or not
InitAuth == InitAuthWith({NULL, 1}, {NoProfile, NewUser})

\* the scenario of one user, signed up or not, signing in and out
NextAuth ==
  \/ MountAuth
  \/ UnmountAuth
  \/ TimerFires
  \/ \E outcome \in {"session", "error", "throws"} : GetSessionAnswers(outcome)
  \/ \E e \in {NULL, 1} : DeliverAuthEvent(e)
  \/ \E f \in auth.fetches,
        outcome \in {"data", "missing", "dberror", "throws"} :
       ProfileSelectAnswers(f, outcome)
  \/ \E f \in auth.fetches, outcome \in {"user", "throws"} :
       GetUserAnswers(f, outcome)
  \/ \E f \in auth.fetches, outcome \in {"created", "error", "throws"} :
       InsertProfileAnswers(f, outcome)
  \/ SignIn(1)
  \/ \E ok \in BOOLEAN : SignInAnswers(ok)
  \/ SignOut

\* timers fire and sent requests settle; the auth client delivers its events
SpecAuth ==
  /\ InitAuth
  /\ [][NextAuth]_vars
  /\ WF_vars(TimerFires)
  /\ WF_vars(AuthRequestSettles)
  /\ WF_vars(\E ok \in BOOLEAN : SignInAnswers(ok))
  /\ WF_vars(\E e \in {NULL} \cup AuthUserIds : DeliverAuthEvent(e))


\* C29: a mounted useAuth that is loading stops loading (or is unmounted):
\* whatever getSession does (a session, none, an error, an exception, no
\* answer before the timer), and whatever an auth event's or a sign-in's
\* profile fetch answers, loading becomes false
C29_LoadingEnds ==
  (auth.mounted /\ auth.loading) ~> (~auth.mounted \/ ~auth.loading)

\* getSession has not answered, the timer has fired, and an auth event's profile
\* fetch ended in the catch branch without a user: loading is false again
C29_Witness ==
  /\ auth.mounted
  /\ auth.init = "getSession"
  /\ ~auth.timer
  /\ auth.session = 1
  /\ auth.fetches = {}
  /\ auth.events = {}
  /\ auth.signin = NULL
  /\ auth.user = NoUser
  /\ ~auth.loading

\* a browser without a session, nobody signed up
InitProfile == InitAuthWith({NULL}, {NoProfile})

\* the scenario of two users signing up, in and out once the login form
\* shows, with profiles whose roles change
NextProfile ==
  \/ MountAuth
  \/ GetSessionAnswers("session")
  \/ \E e \in {NULL} \cup AuthUserIds : DeliverAuthEvent(e)
  \/ \E f \in auth.fetches,
        outcome \in {"data", "missing", "dberror", "throws"} :
       ProfileSelectAnswers(f, outcome)
  \/ \E f \in auth.fetches, outcome \in {"user", "throws"} :
       GetUserAnswers(f, outcome)
  \/ \E f \in auth.fetches, outcome \in {"created", "error", "throws"} :
       InsertProfileAnswers(f, outcome)
  \/ \E u \in AuthUserIds : auth.init = "done" /\ SignIn(u)
  \/ \E ok \in BOOLEAN : SignInAnswers(ok)
  \/ SignOut
  \/ \E u \in AuthUserIds : SignUp(u)
  \/ \E role \in UserRoles : UpdateProfile(role)
  \/ \E u \in AuthUserIds, role \in UserRoles : ChangeRole(u, role)

SpecProfile == InitProfile /\ [][NextProfile]_vars

\* the ids supabase.auth.getUser() has answered or answers in this step
GetUserIds ==
  {auth.authUser} \cup {f.authUser : f \in {g \in auth.fetches : g.pc = "insert"}}

\* the step sets a user object
UserIsSet ==
  /\ auth'.user # NoUser
  /\ <<auth'.user, auth'.log>> # <<auth.user, auth.log>>

\* C30: a user object set because the stored profile could not be loaded
\* (created or temporary) is a Viewer, Active, with the id getUser answered;
\* a user object with role Planner or Admin is the row of the users table
\* as read by the select or returned by the update
C30_FallbackUserIsViewer ==
  /\ [](auth.log \in {"created", "temporary"}
          => /\ auth.user.role = "Viewer"
             /\ auth.user.status = "Active")
  /\ [][UserIsSet /\ auth'.log \in {"created", "temporary"}
          => auth'.user.id \in GetUserIds \ {NULL}]_vars
  /\ [][UserIsSet /\ auth'.user.role \in {"Planner", "Admin"}
          => /\ auth'.log \in {"loaded", "updated"}
             /\ auth'.user.user_code # "TEMP"
             /\ auth'.users[auth'.user.id].role = auth'.user.role]_vars

\* user 2 is signed in, their stored profile has been made Admin, and the
\* hook shows a temporary Viewer for them after a database error
C30_Witness ==
  /\ auth.mounted
  /\ auth.authUser = 2
  /\ auth.users[2].role = "Admin"
  /\ auth.log = "temporary"
  /\ auth.user = TempUser(2)

====
